---- MODULE Spec2Model ----
(***************************************************************************)
(* Model of services/audio_stitcher.py: one call of stitch_audio_files,    *)
(* with calculate_timestamps, format_timestamp, extract_song_title and the *)
(* construction of the ffmpeg command as operators.                        *)
(*                                                                         *)
(* Time is counted in ticks, TicksPerMs ticks to the millisecond, so that  *)
(* durations reported by ffprobe may be fractions of a millisecond and     *)
(* int(x * 1000) truncates. Arithmetic on times is exact (Python's float   *)
(* rounding is not modelled).                                              *)
(*                                                                         *)
(* Text is a sequence of string tokens; a file path is such a sequence.    *)
(***************************************************************************)
EXTENDS Integers, Sequences, FiniteSets, TLC

\* ------------------------------------------------------------------ bounds

\* At most this many audio files in the input folder.
MaxSongs == 3

\* format_timestamp is called on every whole number of seconds up to this one.
MaxSeconds == 7300

\* Resolution of time: ticks per millisecond.
TicksPerMs == 2

\* ------------------------------------------------------------------- time

Sec(n) == n * 1000 * TicksPerMs

\* int(x * 1000) of a time x in seconds: milliseconds, truncated towards zero.
ToMs(t) == IF t >= 0 THEN t \div TicksPerMs ELSE -((-t) \div TicksPerMs)

\* What the ffprobe call of get_audio_duration ends with when the duration
\* cannot be measured: ffprobe is missing (subprocess.run raises), it fails
\* and prints nothing, or it prints something float() rejects.
ProbeFailed == -1

\* What the ffprobe call ends with for a song: a failure, or a duration.
Durations == {ProbeFailed, Sec(1) + 1, Sec(90), Sec(100), Sec(120)}

\* The same for the producer tag.
IntroDurations == {ProbeFailed, Sec(10) + 1}

Fades == {0, Sec(5)}

Silences == {0, Sec(6)}

\* ------------------------------------------------------------------ files

\* The audio files the input folder may hold, by base name split at "_".
\* The index of a file is its rank in the alphabetical order of the paths:
\* night_drive < producer_tag < table_audio_lofi_123456
\*   < table_audio_lofi_20240101_rain.
FileName ==
    << <<"night", "drive">>,
       <<"producer", "tag">>,
       <<"table", "audio", "lofi", "123456">>,
       <<"table", "audio", "lofi", "20240101", "rain">> >>

FileIds == DOMAIN FileName

\* The producer tag file, which lies outside the input folder.
TagFile == 0

\* producer_tag = None
NoTag == -1

\* output_file values: None, and two paths given by the caller.
NoneValue == <<"None">>

OutputFiles == {NoneValue, <<"mix", ".mp3">>, <<"mix", ".wav">>}

PlaylistTitles == {<<"Chill", " ", "Mix">>}

\* ----------------------------------------------------------------- state

VARIABLES
    pc,                \* position in stitch_audio_files
    folder_exists,     \* os.path.exists(input_folder)
    ffmpeg_ok,         \* `ffmpeg -version` runs
    folder,            \* the audio files of the input folder
    tag_exists,        \* os.path.exists(producer_tag)
    probe,             \* what the ffprobe call ends with for each file
    producer_tag,      \* parameter: NoTag or TagFile
    fade_duration,     \* parameter
    silence_duration,  \* parameter
    playlist_title,    \* parameter
    output_file,       \* parameter, then the generated name
    audio_files,       \* the sorted list of files
    timestamps,        \* result of calculate_timestamps
    concat_file,       \* the temporary list file: "unset", "exists", "deleted",
                       \* "left" (os.unlink failed)
    concat_created,    \* the temporary list file was created at some point
    cmd,               \* the ffmpeg command built
    runs,              \* how many times the mix command was run
    returncode,        \* exit code of the mix command; -1 before it ran
    output_exists,     \* the output file exists
    raised,            \* an exception was raised inside the try block
    console,           \* the tracklist lines printed
    tracklist,         \* the tracklist file: "none", "partial", "complete"
    tracklist_file,    \* the path the tracklist was written to
    tracklist_lines,   \* the lines written to the tracklist file
    ret                \* the value returned; Pending before the return

\* One call of format_timestamp.
VARIABLES
    whole_seconds,     \* the argument, a whole number of seconds
    formatted          \* the string returned; <<>> before the call

\* One call of MusicGPTAPI.poll_for_result.
VARIABLES
    poll_pc,           \* position in poll_for_result
    eta_seconds,       \* parameter
    attempt,           \* the loop variable
    calls,             \* how many times get_task_result was called
    sleeps,            \* the arguments of the time.sleep calls, in order
    result,            \* the last answer of get_task_result
    downloads,         \* the tracks _download_music was called for, in order
    poll_ret           \* the value returned; of kind "pending" before the return

\* One call of MusicGPTAPI.generate_music of src/musicgpt_api_test.py, with
\* its WebhookServer and the handler thread.
VARIABLES
    gen_pc,            \* position in generate_music
    use_webhook,       \* parameter
    server,            \* self.server: "none", "listening" (serve_forever runs),
                       \* "bound" (socket bound, no thread), "closed"
    server_started,    \* start_server returned True in this call
    posted,            \* the POST was answered with a task_id
    in_results,        \* task_id in self.results
    stored_at,         \* when the handler stored the webhook; -1 before
    clock,             \* time.time(), in seconds
    start_time,        \* get_result: start_time
    timeout,           \* get_result: timeout
    wake_at,           \* when the running time.sleep(2) ends
    gen_ret            \* what the call ends with; of kind "pending" before

webhook_vars ==
    << gen_pc, use_webhook, server, server_started, posted, in_results,
       stored_at, clock, start_time, timeout, wake_at, gen_ret >>

\* Two calls of rename_songs with the same song names.
VARIABLES
    rn_pc,             \* position in rename_songs
    call_no,           \* which of the two calls
    songs_folder,      \* the content held under each name of the folder,
                       \* NoFile where there is no such file
    files_before,      \* the folder before the first call
    files_after_first, \* the folder after the first call
    song_names,        \* parameter
    mp3_files,         \* the sorted list made by glob
    rn_i,              \* the loop variable
    tried,             \* os.rename calls of the current call
    renamed,           \* those that succeeded
    rename_error       \* an os.rename call raised, in either call

rename_vars ==
    << rn_pc, call_no, songs_folder, files_before, files_after_first, song_names,
       mp3_files, rn_i, tried, renamed, rename_error >>

VARIABLES
    main_pc,           \* position in main
    script,            \* services/main.py or ad_hoc_fixes_and_tests/main_dnb_test.py
    playlist_index,    \* parameter index
    playlist_data,     \* lofi_playlist_data[index]
    steps,             \* the pipeline steps called so far, in order
    main_console,      \* what main printed about the steps
    result_mp3,        \* what stitch_audio_files returned
    main_timeline,     \* the timeline stitch_audio_files wrote the tracklist from
    tracklist_on_disk, \* the lines of the tracklist file
    result_mp4,        \* what convert_audio_to_video returned
    timestamps_desc,   \* what load_and_clean_tracklist returned, line by line
    description_file,  \* the description file: "none" or "written"
    main_raised        \* the exception main ended with, "" for none

main_vars ==
    << main_pc, script, playlist_index, playlist_data, steps, main_console,
       result_mp3, main_timeline, tracklist_on_disk, result_mp4,
       timestamps_desc, description_file, main_raised >>

format_vars == << whole_seconds, formatted >>

poll_vars ==
    << poll_pc, eta_seconds, attempt, calls, sleeps, result, downloads, poll_ret >>

stitch_vars ==
    << pc, folder_exists, ffmpeg_ok, folder, tag_exists, probe, producer_tag,
       fade_duration, silence_duration, playlist_title, output_file,
       audio_files, timestamps, concat_file, concat_created, cmd, runs,
       returncode, output_exists, raised, console, tracklist, tracklist_file,
       tracklist_lines, ret >>

vars ==
    << stitch_vars, format_vars, poll_vars, webhook_vars, rename_vars, main_vars >>

\* What a step of one machine leaves alone.
beside_stitch == << format_vars, poll_vars, webhook_vars, rename_vars, main_vars >>

beside_format == << stitch_vars, poll_vars, webhook_vars, rename_vars, main_vars >>

beside_poll == << stitch_vars, format_vars, webhook_vars, rename_vars, main_vars >>

beside_webhook == << stitch_vars, format_vars, poll_vars, rename_vars, main_vars >>

beside_rename == << stitch_vars, format_vars, poll_vars, webhook_vars, main_vars >>

beside_main == << stitch_vars, format_vars, poll_vars, webhook_vars, rename_vars >>

Pending == <<"pending">>

\* ------------------------------------------------------- get_audio_duration

\* A variant without the try/except: the failure is passed on.
GetAudioDurationUnguarded(file) == probe[file]

\* float(result.stdout.strip()) of ffprobe's answer for the file; 0 when the
\* call or the conversion raises (the bare except).
get_audio_duration(file) == IF probe[file] = ProbeFailed THEN 0 ELSE probe[file]

\* --------------------------------------------------------- format_timestamp

Digit(d) ==
    CASE d = 0 -> "0" [] d = 1 -> "1" [] d = 2 -> "2" [] d = 3 -> "3"
      [] d = 4 -> "4" [] d = 5 -> "5" [] d = 6 -> "6" [] d = 7 -> "7"
      [] d = 8 -> "8" [] d = 9 -> "9"

\* The decimal digits of n >= 0.
RECURSIVE Decimal(_)
Decimal(n) == IF n < 10 THEN <<Digit(n)>> ELSE Decimal(n \div 10) \o <<Digit(n % 10)>>

\* f"{n:d}"
FormatD(n) == IF n < 0 THEN <<"-">> \o Decimal(-n) ELSE Decimal(n)

\* f"{n:02d}": zero-padded to a width of two, the sign included.
Format02d(n) == IF n >= 0 /\ n < 10 THEN <<"0">> \o Decimal(n) ELSE FormatD(n)

\* A variant whose hour form starts after 3600 s and not at 3600 s.
FormatTimestampHourLate(seconds) ==
    IF seconds > Sec(3600)
    THEN LET hours == seconds \div Sec(3600)
             minutes == (seconds % Sec(3600)) \div Sec(60)
             secs == (seconds % Sec(60)) \div Sec(1)
         IN  FormatD(hours) \o <<":">> \o Format02d(minutes) \o <<":">> \o Format02d(secs)
    ELSE LET minutes == seconds \div Sec(60)
             secs == (seconds % Sec(60)) \div Sec(1)
         IN  Format02d(minutes) \o <<":">> \o Format02d(secs)

\* seconds // k and seconds % k of Python floor towards minus infinity, as
\* \div and % do; int() of the results then changes nothing but the fraction.
format_timestamp(seconds) ==
    IF seconds >= Sec(3600)
    THEN LET hours == seconds \div Sec(3600)
             minutes == (seconds % Sec(3600)) \div Sec(60)
             secs == (seconds % Sec(60)) \div Sec(1)
         IN  FormatD(hours) \o <<":">> \o Format02d(minutes) \o <<":">> \o Format02d(secs)
    ELSE LET minutes == seconds \div Sec(60)
             secs == (seconds % Sec(60)) \div Sec(1)
         IN  Format02d(minutes) \o <<":">> \o Format02d(secs)

\* -------------------------------------------------------- extract_song_title

\* str.isdigit() on the parts that occur in FileName.
IsDigit(part) == part \in {"123456", "20240101"}

\* str.title() on one word.
TitleCase(part) ==
    CASE part = "night" -> "Night" [] part = "drive" -> "Drive"
      [] part = "producer" -> "Producer" [] part = "tag" -> "Tag"
      [] part = "table" -> "Table" [] part = "audio" -> "Audio"
      [] part = "lofi" -> "Lofi" [] part = "rain" -> "Rain"
      [] OTHER -> part

TitleWords(parts) == [i \in 1..Len(parts) |-> TitleCase(parts[i])]

\* "table_audio_lofi_" in name
HasLofiPrefix(parts) ==
    \E i \in 1..Len(parts) :
        /\ i + 3 <= Len(parts)
        /\ parts[i] = "table" /\ parts[i + 1] = "audio" /\ parts[i + 2] = "lofi"

KeptPart(part) == ~(part \in {"table", "audio", "lofi"} \/ IsDigit(part))

\* The title as its words, which the code joins with single spaces.
extract_song_title(file) ==
    LET parts == FileName[file]
        title_parts == SelectSeq(parts, KeptPart)
    IN  IF HasLofiPrefix(parts) /\ title_parts # <<>>
        THEN TitleWords(title_parts)
        ELSE TitleWords(parts)

\* The literal 'Producer Tag'.
ProducerTagTitle == <<"Producer", "Tag">>

\* ------------------------------------------------------ calculate_timestamps

\* A variant that lets the first song play in full before the silence, with
\* no fade overlap, as the first iteration of the filter loops does.
RECURSIVE SongEntriesFirstInFull(_, _, _, _, _)
SongEntriesFirstInFull(files, i, current_time, fade, silence) ==
    IF i > Len(files)
    THEN <<>>
    ELSE LET duration == get_audio_duration(files[i])
             entry == [file |-> files[i],
                       title |-> extract_song_title(files[i]),
                       start_time |-> current_time,
                       duration |-> duration]
             step == IF i = 1
                     THEN duration + silence
                     ELSE duration - fade + silence
         IN  <<entry>> \o SongEntriesFirstInFull(files, i + 1, current_time + step,
                                                 fade, silence)

\* A variant that never lets current_time go back: the step is clamped at 0.
RECURSIVE SongEntriesClamped(_, _, _, _, _)
SongEntriesClamped(files, i, current_time, fade, silence) ==
    IF i > Len(files)
    THEN <<>>
    ELSE LET duration == get_audio_duration(files[i])
             entry == [file |-> files[i],
                       title |-> extract_song_title(files[i]),
                       start_time |-> current_time,
                       duration |-> duration]
             step == IF duration - fade + silence < 0
                     THEN 0
                     ELSE duration - fade + silence
         IN  <<entry>> \o SongEntriesClamped(files, i + 1, current_time + step,
                                             fade, silence)

\* The loop over audio_files from index i on, current_time being its value
\* on entry of iteration i. Both arms of `if i == 0` add the same amount.
RECURSIVE SongEntries(_, _, _, _, _)
SongEntries(files, i, current_time, fade, silence) ==
    IF i > Len(files)
    THEN <<>>
    ELSE LET duration == get_audio_duration(files[i])
             entry == [file |-> files[i],
                       title |-> extract_song_title(files[i]),
                       start_time |-> current_time,
                       duration |-> duration]
         IN  <<entry>> \o SongEntries(files, i + 1,
                                      current_time + duration - fade + silence,
                                      fade, silence)

\* A variant that adds the producer tag's entry and forgets to start the
\* songs after it.
TimestampsIntroNotCounted(files, fade, silence, tag) ==
    IF tag # NoTag /\ tag_exists
    THEN << [file |-> tag,
             title |-> ProducerTagTitle,
             start_time |-> 0,
             duration |-> get_audio_duration(tag)] >>
         \o SongEntries(files, 1, 0, fade, silence)
    ELSE SongEntries(files, 1, 0, fade, silence)

calculate_timestamps(files, fade, silence, tag) ==
    IF tag # NoTag /\ tag_exists
    THEN LET producer_duration == get_audio_duration(tag)
         IN  << [file |-> tag,
                 title |-> ProducerTagTitle,
                 start_time |-> 0,
                 duration |-> producer_duration] >>
             \o SongEntries(files, 1, producer_duration, fade, silence)
    ELSE SongEntries(files, 1, 0, fade, silence)

\* ------------------------------------------------------------ filter graph

\* A stream label: an input [n], or a named label such as [a1], [mixed].
In(n) == [k |-> "in", n |-> n]

Lbl(k, n) == [k |-> k, n |-> n]

Name(k) == [k |-> k, n |-> 0]

NoLabel == [k |-> "", n |-> 0]

\* One filter of the graph: its inputs, its one numeric parameter
\* (apad pad_dur, adelay milliseconds, acrossfade d, amix inputs, concat n),
\* and its output label.
Stage(op, ins, arg, out) == [op |-> op, ins |-> ins, arg |-> arg, out |-> out]

NoCmd == [built |-> FALSE, inputs |-> <<>>, has_filter |-> FALSE,
          filter |-> <<>>, map |-> NoLabel, out |-> NoneValue]

\* ['ffmpeg', '-i', ..., '-filter_complex', filter, '-map', map, ..., '-y', out]
Command(inputs, filter, map, out) ==
    [built |-> TRUE, inputs |-> inputs, has_filter |-> TRUE,
     filter |-> filter, map |-> map, out |-> out]

\* ['ffmpeg', '-i', file, '-c:a', 'mp3', '-b:a', '320k', '-y', out]
PlainCommand(inputs, out) ==
    [built |-> TRUE, inputs |-> inputs, has_filter |-> FALSE,
     filter |-> <<>>, map |-> NoLabel, out |-> out]

\* all_inputs / input_files: the producer tag first if given, then the songs.
AllInputs(files, tag) == IF tag # NoTag THEN <<tag>> \o files ELSE files

\* ''.join([f'[a{i}]' for i in range(len(audio_files))])
StreamRefs(n) == [j \in 1..n |-> Lbl("a", j - 1)]

\* f'{stream_refs}amix=inputs={n}:duration=longest:normalize=0[mixed]'
Amix(ins, n) == Stage("amix", ins, n, Name("mixed"))

\* A count that forgets the producer tag.
TotalInputsSongsOnly(files) == Len(files)

\* total_inputs = len(audio_files) + 1
TotalInputs(files) == Len(files) + 1

Dynaudnorm == Stage("dynaudnorm", <<Name("mixed")>>, 0, Name("out"))

\* A crossfade whose length is the default of the signature, not the argument.
AcrossfadeDefaultFade(a, b, fade, out) ==
    Stage("acrossfade", <<a, b>>, Sec(5), out)

\* f'{a}{b}acrossfade=d={fade_duration}{out}'
Acrossfade(a, b, fade, out) == Stage("acrossfade", <<a, b>>, fade, out)

\* A single-file branch that pads whether or not silence is asked for.
SingleFileAlwaysPadded(files, silence, tag, out) ==
    IF tag # NoTag
    THEN Command(AllInputs(files, tag),
                 << Stage("concat", <<In(0), In(1)>>, 2, Name("joined")),
                    Stage("apad", <<Name("joined")>>, silence, Name("out")) >>,
                 Name("out"), out)
    ELSE Command(<<files[1]>>,
                 << Stage("apad", <<In(0)>>, silence, Name("out")) >>,
                 Name("out"), out)

\* One song, with or without producer tag.
SingleFile(files, silence, tag, out) ==
    IF tag # NoTag
    THEN IF silence > 0
         THEN Command(AllInputs(files, tag),
                      << Stage("concat", <<In(0), In(1)>>, 2, Name("joined")),
                         Stage("apad", <<Name("joined")>>, silence, Name("out")) >>,
                      Name("out"), out)
         ELSE Command(AllInputs(files, tag),
                      << Stage("concat", <<In(0), In(1)>>, 2, Name("out")) >>,
                      Name("out"), out)
    ELSE IF silence > 0
         THEN Command(<<files[1]>>,
                      << Stage("apad", <<In(0)>>, silence, Name("out")) >>,
                      Name("out"), out)
         ELSE PlainCommand(<<files[1]>>, out)

\* A two-file branch that knows the crossfade only, whatever the silence and
\* the producer tag.
TwoFilesCrossfadeOnly(files, fade, silence, tag, out) ==
    [built |-> TRUE, inputs |-> AllInputs(files, tag), has_filter |-> TRUE,
     filter |-> << Stage("acrossfade", <<In(0), In(1)>>, fade, NoLabel) >>,
     map |-> NoLabel, out |-> out]

\* Two songs, with or without producer tag.
TwoFiles(files, fade, silence, tag, out) ==
    IF tag # NoTag
    THEN LET producer_duration == get_audio_duration(tag)
             song1_delay == producer_duration
         IN  IF silence > 0
             THEN LET song2_delay == producer_duration + get_audio_duration(files[1])
                                     - fade + silence
                  IN  Command(AllInputs(files, tag),
                              << Stage("apad", <<In(1)>>, silence, Lbl("s", 1)),
                                 Stage("adelay", <<Lbl("s", 1)>>, ToMs(song1_delay), Lbl("a", 1)),
                                 Stage("adelay", <<In(2)>>, ToMs(song2_delay), Lbl("a", 2)),
                                 Amix(<<In(0), Lbl("a", 1), Lbl("a", 2)>>, 3),
                                 Dynaudnorm >>,
                              Name("out"), out)
             ELSE LET song2_delay == producer_duration + get_audio_duration(files[1])
                                     - fade
                  IN  Command(AllInputs(files, tag),
                              << Stage("adelay", <<In(1)>>, ToMs(song1_delay), Lbl("a", 1)),
                                 Stage("adelay", <<In(2)>>, ToMs(song2_delay), Lbl("a", 2)),
                                 Amix(<<In(0), Lbl("a", 1), Lbl("a", 2)>>, 3),
                                 Dynaudnorm >>,
                              Name("out"), out)
    ELSE IF silence > 0
         THEN Command(<<files[1], files[2]>>,
                      << Stage("apad", <<In(0)>>, silence, Lbl("a", 0)),
                         Stage("adelay", <<In(1)>>,
                               ToMs(get_audio_duration(files[1]) - fade + silence),
                               Lbl("a", 1)),
                         Amix(<<Lbl("a", 0), Lbl("a", 1)>>, 2),
                         Dynaudnorm >>,
                      Name("out"), out)
         ELSE [built |-> TRUE, inputs |-> <<files[1], files[2]>>, has_filter |-> TRUE,
               filter |-> << Acrossfade(In(0), In(1), fade, NoLabel) >>,
               map |-> NoLabel, out |-> out]

\* A variant that pads every song, not the first one only.
RECURSIVE TagSilencePartsPadAll(_, _, _, _, _)
TagSilencePartsPadAll(files, i, current_time, fade, silence) ==
    IF i >= Len(files)
    THEN <<>>
    ELSE LET input_index == i + 1
             duration == get_audio_duration(files[i + 1])
             start == IF i = 0 THEN current_time ELSE current_time - fade
             next == IF i = 0
                     THEN current_time + duration + silence
                     ELSE current_time + duration - fade + silence
         IN  << Stage("apad", <<In(input_index)>>, silence, Lbl("s", i)),
                Stage("adelay", <<Lbl("s", i)>>, ToMs(start), Lbl("a", i)) >>
             \o TagSilencePartsPadAll(files, i + 1, next, fade, silence)

\* Three or more songs, producer tag, silence: the loop from iteration i
\* (0-based, as in the code) on.
RECURSIVE TagSilenceParts(_, _, _, _, _)
TagSilenceParts(files, i, current_time, fade, silence) ==
    IF i >= Len(files)
    THEN <<>>
    ELSE LET input_index == i + 1
             duration == get_audio_duration(files[i + 1])
         IN  IF i = 0
             THEN << Stage("apad", <<In(input_index)>>, silence, Lbl("s", i)),
                     Stage("adelay", <<Lbl("s", i)>>, ToMs(current_time), Lbl("a", i)) >>
                  \o TagSilenceParts(files, i + 1, current_time + duration + silence,
                                     fade, silence)
             ELSE << Stage("adelay", <<In(input_index)>>, ToMs(current_time - fade),
                           Lbl("a", i)) >>
                  \o TagSilenceParts(files, i + 1,
                                     current_time + duration - fade + silence,
                                     fade, silence)

\* A variant that forgets that the producer tag is input [0].
RECURSIVE TagPartsIndexNotShifted(_, _, _, _)
TagPartsIndexNotShifted(files, i, current_time, fade) ==
    IF i >= Len(files)
    THEN <<>>
    ELSE LET input_index == i
             duration == get_audio_duration(files[i + 1])
         IN  IF i = 0
             THEN << Stage("adelay", <<In(input_index)>>, ToMs(current_time), Lbl("a", i)) >>
                  \o TagPartsIndexNotShifted(files, i + 1, current_time + duration, fade)
             ELSE << Stage("adelay", <<In(input_index)>>, ToMs(current_time - fade),
                           Lbl("a", i)) >>
                  \o TagPartsIndexNotShifted(files, i + 1,
                                             current_time + duration - fade, fade)

\* Three or more songs, producer tag, no silence.
RECURSIVE TagParts(_, _, _, _)
TagParts(files, i, current_time, fade) ==
    IF i >= Len(files)
    THEN <<>>
    ELSE LET input_index == i + 1
             duration == get_audio_duration(files[i + 1])
         IN  IF i = 0
             THEN << Stage("adelay", <<In(input_index)>>, ToMs(current_time), Lbl("a", i)) >>
                  \o TagParts(files, i + 1, current_time + duration, fade)
             ELSE << Stage("adelay", <<In(input_index)>>, ToMs(current_time - fade),
                           Lbl("a", i)) >>
                  \o TagParts(files, i + 1, current_time + duration - fade, fade)

\* Three or more songs, no producer tag, silence.
RECURSIVE SilenceParts(_, _, _, _, _)
SilenceParts(files, i, current_time, fade, silence) ==
    IF i >= Len(files)
    THEN <<>>
    ELSE LET duration == get_audio_duration(files[i + 1])
         IN  IF i = 0
             THEN << Stage("apad", <<In(i)>>, silence, Lbl("a", i)) >>
                  \o SilenceParts(files, i + 1, duration + silence, fade, silence)
             ELSE << Stage("adelay", <<In(i)>>, ToMs(current_time), Lbl("a", i)) >>
                  \o SilenceParts(files, i + 1,
                                  current_time + duration - fade + silence,
                                  fade, silence)

\* A chain in which every crossfade starts again from the first input.
RECURSIVE CrossfadeChainFromFirst(_, _, _, _)
CrossfadeChainFromFirst(n, i, current_stream, fade) ==
    IF i >= n
    THEN <<>>
    ELSE << Stage("acrossfade", <<In(0), In(i)>>, fade, Lbl("cf", i)) >>
         \o CrossfadeChainFromFirst(n, i + 1, Lbl("cf", i), fade)

\* Three or more songs, no producer tag, no silence: the chain of crossfades
\* from iteration i >= 1 on; both arms of `if i == 1` are the same.
RECURSIVE CrossfadeChain(_, _, _, _)
CrossfadeChain(n, i, current_stream, fade) ==
    IF i >= n
    THEN <<>>
    ELSE << Acrossfade(current_stream, In(i), fade, Lbl("cf", i)) >>
         \o CrossfadeChain(n, i + 1, Lbl("cf", i), fade)

\* current_stream when that loop ends.
RECURSIVE ChainStream(_, _, _)
ChainStream(n, i, current_stream) ==
    IF i >= n THEN current_stream ELSE ChainStream(n, i + 1, Lbl("cf", i))

ManyFiles(files, fade, silence, tag, out) ==
    IF tag # NoTag
    THEN LET filter_parts ==
                 IF silence > 0
                 THEN TagSilenceParts(files, 0, get_audio_duration(tag), fade, silence)
                 ELSE TagParts(files, 0, get_audio_duration(tag), fade)
             stream_refs == <<In(0)>> \o StreamRefs(Len(files))
         IN  Command(AllInputs(files, tag),
                     filter_parts \o <<Amix(stream_refs, TotalInputs(files)), Dynaudnorm>>,
                     Name("out"), out)
    ELSE IF silence > 0
         THEN Command(files,
                      SilenceParts(files, 0, 0, fade, silence)
                          \o <<Amix(StreamRefs(Len(files)), Len(files)), Dynaudnorm>>,
                      Name("out"), out)
         ELSE Command(files,
                      CrossfadeChain(Len(files), 1, In(0), fade),
                      ChainStream(Len(files), 1, In(0)), out)

\* The command stitch_audio_files builds for a non-empty list of files.
BuildCmd(files, fade, silence, tag, out) ==
    IF Len(files) = 1
    THEN SingleFile(files, silence, tag, out)
    ELSE IF Len(files) = 2
         THEN TwoFiles(files, fade, silence, tag, out)
         ELSE ManyFiles(files, fade, silence, tag, out)

\* ---------------------------------------------------------------- tracklist

\* ' '.join(words), as tokens.
RECURSIVE JoinWords(_)
JoinWords(words) ==
    IF Len(words) <= 1
    THEN words
    ELSE <<words[1], " ">> \o JoinWords(Tail(words))

\* The loop that writes one line per timeline entry, from entry i on.
RECURSIVE EntryLines(_, _, _)
EntryLines(ts, i, song_counter) ==
    IF i > Len(ts)
    THEN <<>>
    ELSE LET timestamp_str == format_timestamp(ts[i].start_time)
         IN  IF ts[i].title = ProducerTagTitle
             THEN << timestamp_str \o <<" - ">> \o JoinWords(ProducerTagTitle) >>
                  \o EntryLines(ts, i + 1, song_counter)
             ELSE << timestamp_str \o <<" - ">> \o Format02d(song_counter)
                     \o <<". ">> \o JoinWords(ts[i].title) >>
                  \o EntryLines(ts, i + 1, song_counter + 1)

\* datetime.now().strftime(...): one fixed moment.
NowStamp == "20260101_120000"

NowText == "2026-01-01 12:00:00"

\* f"playlists/{playlist_title}_{timestamp}.mp3"
GeneratedName(title) == <<"playlists/">> \o title \o <<"_", NowStamp, ".mp3">>

\* output_file.replace('.mp3', '_tracklist.txt')
TracklistPath(out) ==
    [i \in 1..Len(out) |-> IF out[i] = ".mp3" THEN "_tracklist.txt" ELSE out[i]]

\* What is written to the tracklist file, line by line.
TracklistText(out, ts) ==
    << <<"Tracklist for: ">> \o out, <<"Generated on: ", NowText>>, <<>> >>
    \o EntryLines(ts, 1, 1)

\* ------------------------------------------------------------------ actions

\* list.sort() of the globbed paths: ascending rank.
RECURSIVE Sorted(_)
Sorted(S) ==
    IF S = {}
    THEN <<>>
    ELSE LET m == CHOOSE x \in S : \A y \in S : x <= y
         IN  <<m>> \o Sorted(S \ {m})

\* not os.path.exists(input_folder)
FolderNotFound == ~folder_exists

\* `ffmpeg -version` fails or ffmpeg is not on the path.
FfmpegNotFound == ~ffmpeg_ok

\* A variant without the check for an empty list.
NoFilesFoundUnchecked == FALSE

\* not audio_files
NoFilesFound == folder = {}

\* A variant that does not validate the producer tag.
ProducerTagUnchecked == FALSE

\* producer_tag and not os.path.exists(producer_tag)
ProducerTagNotFound == producer_tag # NoTag /\ ~tag_exists

\* A variant that trusts the exit code alone.
MixSucceededByExitCode == returncode = 0

\* result.returncode == 0, then os.path.exists(output_file)
MixSucceeded == returncode = 0 /\ output_exists

\* No answer of get_task_result yet.
NoResult == [kind |-> "none"]

\* Before a call of format_timestamp.
FormatIdle ==
    /\ whole_seconds = 0
    /\ formatted = <<>>

\* Before a call of poll_for_result.
PollIdle ==
    /\ poll_pc = "idle"
    /\ eta_seconds = 0
    /\ attempt = 0
    /\ calls = 0
    /\ sleeps = <<>>
    /\ result = NoResult
    /\ downloads = <<>>
    /\ poll_ret = [kind |-> "pending"]

\* The names a file of the songs folder and a song can have, in sorted order.
MaxNames == 3

Names == 1..MaxNames

\* No file of that name.
NoFile == 0

\* Before a call of rename_songs, with an empty folder.
RenameIdle ==
    /\ rn_pc = "idle"
    /\ call_no = 1
    /\ songs_folder = [n \in Names |-> NoFile]
    /\ files_before = [n \in Names |-> NoFile]
    /\ files_after_first = [n \in Names |-> NoFile]
    /\ song_names = <<>>
    /\ mp3_files = <<>>
    /\ rn_i = 0
    /\ tried = 0
    /\ renamed = 0
    /\ rename_error = FALSE

\* Before a call of generate_music.
WebhookIdle ==
    /\ gen_pc = "idle"
    /\ use_webhook = FALSE
    /\ server = "none"
    /\ server_started = FALSE
    /\ posted = FALSE
    /\ in_results = FALSE
    /\ stored_at = -1
    /\ clock = 0
    /\ start_time = 0
    /\ timeout = 0
    /\ wake_at = 0
    /\ gen_ret = [kind |-> "pending"]

\* Before a call of main.
MainIdle ==
    /\ main_pc = "idle"
    /\ script = "main"
    /\ playlist_index = 0
    /\ playlist_data = NoneValue
    /\ steps = <<>>
    /\ main_console = <<>>
    /\ result_mp3 = NoneValue
    /\ main_timeline = <<>>
    /\ tracklist_on_disk = <<>>
    /\ result_mp4 = NoneValue
    /\ timestamps_desc = <<>>
    /\ description_file = "none"
    /\ main_raised = ""

StitchIdle ==
    /\ pc = "idle"
    /\ folder_exists = FALSE
    /\ ffmpeg_ok = FALSE
    /\ folder = {}
    /\ tag_exists = FALSE
    /\ probe = [f \in FileIds \cup {TagFile} |-> ProbeFailed]
    /\ producer_tag = NoTag
    /\ fade_duration = 0
    /\ silence_duration = 0
    /\ playlist_title = <<>>
    /\ output_file = NoneValue
    /\ audio_files = <<>>
    /\ timestamps = <<>>
    /\ concat_file = "unset"
    /\ concat_created = FALSE
    /\ cmd = NoCmd
    /\ runs = 0
    /\ returncode = -1
    /\ output_exists = FALSE
    /\ raised = FALSE
    /\ console = <<>>
    /\ tracklist = "none"
    /\ tracklist_file = NoneValue
    /\ tracklist_lines = <<>>
    /\ ret = Pending

Init ==
    /\ StitchIdle
    /\ FormatIdle
    /\ PollIdle
    /\ WebhookIdle
    /\ MainIdle
    /\ RenameIdle

\* The caller's arguments and the file system the call finds.
Call ==
    /\ pc = "idle"
    /\ \E fe \in BOOLEAN, fl \in SUBSET FileIds, tag \in {NoTag, TagFile},
          te \in BOOLEAN :
        /\ Cardinality(fl) <= MaxSongs
        /\ ~fe => fl = {}
        /\ tag = NoTag => ~te
        /\ folder_exists' = fe
        /\ folder' = fl
        /\ producer_tag' = tag
        /\ tag_exists' = te
        /\ \E d \in [fl -> Durations],
              td \in (IF te THEN IntroDurations ELSE {ProbeFailed}) :
            probe' = [f \in FileIds \cup {TagFile} |->
                         IF f \in fl THEN d[f]
                         ELSE IF f = TagFile THEN td ELSE ProbeFailed]
    /\ ffmpeg_ok' \in BOOLEAN
    /\ fade_duration' \in Fades
    /\ silence_duration' \in Silences
    /\ playlist_title' \in PlaylistTitles
    /\ output_file' \in OutputFiles
    /\ pc' = "validate"
    /\ UNCHANGED << audio_files, timestamps, concat_file, concat_created, cmd,
                    runs, returncode, output_exists, raised, console,
                    tracklist, tracklist_file, tracklist_lines, ret >>
    /\ UNCHANGED beside_stitch

\* `return None` before the try block.
ReturnNoneEarly ==
    /\ ret' = NoneValue
    /\ pc' = "done"
    /\ UNCHANGED << folder_exists, ffmpeg_ok, folder, tag_exists, probe,
                    producer_tag, fade_duration, silence_duration,
                    playlist_title, output_file, timestamps, concat_file,
                    concat_created, cmd, runs, returncode, output_exists,
                    raised, console, tracklist, tracklist_file,
                    tracklist_lines >>
    /\ UNCHANGED beside_stitch

FolderMissing ==
    /\ pc = "validate"
    /\ FolderNotFound
    /\ UNCHANGED audio_files
    /\ ReturnNoneEarly

FfmpegMissing ==
    /\ pc = "validate"
    /\ ~FolderNotFound
    /\ FfmpegNotFound
    /\ UNCHANGED audio_files
    /\ ReturnNoneEarly

NoAudioFiles ==
    /\ pc = "validate"
    /\ ~FolderNotFound
    /\ ~FfmpegNotFound
    /\ NoFilesFound
    /\ UNCHANGED audio_files
    /\ ReturnNoneEarly

ProducerTagMissing ==
    /\ pc = "validate"
    /\ ~FolderNotFound
    /\ ~FfmpegNotFound
    /\ ~NoFilesFound
    /\ ProducerTagNotFound
    /\ audio_files' = Sorted(folder)
    /\ ReturnNoneEarly

\* All checks pass: timestamps, output name, temporary list file.
Prepare ==
    /\ pc = "validate"
    /\ ~FolderNotFound
    /\ ~FfmpegNotFound
    /\ ~NoFilesFound
    /\ ~ProducerTagNotFound
    /\ audio_files' = Sorted(folder)
    /\ timestamps' = calculate_timestamps(audio_files', fade_duration,
                                          silence_duration, producer_tag)
    /\ output_file' = IF output_file = NoneValue
                      THEN GeneratedName(playlist_title)
                      ELSE output_file
    /\ \/ /\ concat_file' = "exists"
          /\ concat_created' = TRUE
          /\ pc' = "build"
          /\ UNCHANGED << raised, ret >>
       \/ /\ concat_file' = "exists"
          /\ concat_created' = TRUE
          /\ raised' = TRUE
          /\ ret' = NoneValue
          /\ pc' = "finally"
       \/ /\ raised' = TRUE
          /\ ret' = NoneValue
          /\ pc' = "finally"
          /\ UNCHANGED << concat_file, concat_created >>
    /\ UNCHANGED << folder_exists, ffmpeg_ok, folder, tag_exists, probe,
                    producer_tag, fade_duration, silence_duration,
                    playlist_title, cmd, runs, returncode, output_exists,
                    console, tracklist, tracklist_file, tracklist_lines >>
    /\ UNCHANGED beside_stitch

BuildCommand ==
    /\ pc = "build"
    /\ cmd' = BuildCmd(audio_files, fade_duration, silence_duration,
                       producer_tag, output_file)
    /\ pc' = "run"
    /\ UNCHANGED << folder_exists, ffmpeg_ok, folder, tag_exists, probe,
                    producer_tag, fade_duration, silence_duration,
                    playlist_title, output_file, audio_files, timestamps,
                    concat_file, concat_created, runs, returncode,
                    output_exists, raised, console, tracklist, tracklist_file,
                    tracklist_lines, ret >>
    /\ UNCHANGED beside_stitch

\* subprocess.run(cmd): the process runs and exits, or cannot be started.
RunFfmpeg ==
    /\ pc = "run"
    /\ \/ /\ runs' = runs + 1
          /\ returncode' \in {0, 1}
          /\ output_exists' \in BOOLEAN
          /\ pc' = "report"
          /\ UNCHANGED << raised, ret >>
       \/ /\ raised' = TRUE
          /\ ret' = NoneValue
          /\ pc' = "finally"
          /\ UNCHANGED << runs, returncode, output_exists >>
    /\ UNCHANGED << folder_exists, ffmpeg_ok, folder, tag_exists, probe,
                    producer_tag, fade_duration, silence_duration,
                    playlist_title, output_file, audio_files, timestamps,
                    concat_file, concat_created, cmd, console, tracklist,
                    tracklist_file, tracklist_lines >>
    /\ UNCHANGED beside_stitch

\* Exit code 0 and the output file exists: print and write the tracklist.
ReportSuccess ==
    /\ pc = "report"
    /\ MixSucceeded
    /\ console' = EntryLines(timestamps, 1, 1)
    /\ \/ /\ tracklist' = "complete"
          /\ tracklist_file' = TracklistPath(output_file)
          /\ tracklist_lines' = TracklistText(output_file, timestamps)
          /\ ret' = output_file
          /\ UNCHANGED raised
       \/ /\ tracklist' = "partial"
          /\ tracklist_file' = TracklistPath(output_file)
          /\ tracklist_lines' = SubSeq(TracklistText(output_file, timestamps), 1, 1)
          /\ raised' = TRUE
          /\ ret' = NoneValue
       \/ /\ raised' = TRUE
          /\ ret' = NoneValue
          /\ UNCHANGED << tracklist, tracklist_file, tracklist_lines >>
    /\ pc' = "finally"
    /\ UNCHANGED << folder_exists, ffmpeg_ok, folder, tag_exists, probe,
                    producer_tag, fade_duration, silence_duration,
                    playlist_title, output_file, audio_files, timestamps,
                    concat_file, concat_created, cmd, runs, returncode,
                    output_exists >>
    /\ UNCHANGED beside_stitch

\* Exit code 0 without output file, or a non-zero exit code.
ReportFailure ==
    /\ pc = "report"
    /\ ~MixSucceeded
    /\ ret' = NoneValue
    /\ pc' = "finally"
    /\ UNCHANGED << folder_exists, ffmpeg_ok, folder, tag_exists, probe,
                    producer_tag, fade_duration, silence_duration,
                    playlist_title, output_file, audio_files, timestamps,
                    concat_file, concat_created, cmd, runs, returncode,
                    output_exists, raised, console, tracklist, tracklist_file,
                    tracklist_lines >>
    /\ UNCHANGED beside_stitch

\* A variant whose finally block deletes nothing.
FinallyNoCleanup ==
    /\ pc = "finally"
    /\ pc' = "done"
    /\ UNCHANGED << folder_exists, ffmpeg_ok, folder, tag_exists, probe,
                    producer_tag, fade_duration, silence_duration,
                    playlist_title, output_file, audio_files, timestamps,
                    concat_file, concat_created, cmd, runs, returncode,
                    output_exists, raised, console, tracklist, tracklist_file,
                    tracklist_lines, ret >>
    /\ UNCHANGED beside_stitch

\* finally: os.unlink(concat_file), every exception swallowed.
Finally ==
    /\ pc = "finally"
    /\ IF concat_file = "exists"
       THEN concat_file' \in {"deleted", "left"}
       ELSE UNCHANGED concat_file
    /\ pc' = "done"
    /\ UNCHANGED << folder_exists, ffmpeg_ok, folder, tag_exists, probe,
                    producer_tag, fade_duration, silence_duration,
                    playlist_title, output_file, audio_files, timestamps,
                    concat_created, cmd, runs, returncode, output_exists,
                    raised, console, tracklist, tracklist_file,
                    tracklist_lines, ret >>
    /\ UNCHANGED beside_stitch

Next ==
    \/ Call
    \/ FolderMissing
    \/ FfmpegMissing
    \/ NoAudioFiles
    \/ ProducerTagMissing
    \/ Prepare
    \/ BuildCommand
    \/ RunFfmpeg
    \/ ReportSuccess
    \/ ReportFailure
    \/ Finally

Spec == Init /\ [][Next]_vars

\* ------------------------------------------- format_timestamp on its own

\* The whole numbers of seconds format_timestamp is called on: every one up
\* to MaxSeconds, and some with two and three digits of hours.
WholeSeconds == (0..MaxSeconds) \cup {35999, 36000, 86399, 360000, 363599}

InitFormat ==
    /\ StitchIdle
    /\ PollIdle
    /\ WebhookIdle
    /\ MainIdle
    /\ RenameIdle
    /\ whole_seconds \in WholeSeconds
    /\ formatted = <<>>

FormatCall ==
    /\ formatted = <<>>
    /\ formatted' = format_timestamp(Sec(whole_seconds))
    /\ UNCHANGED << whole_seconds, beside_format >>

NextFormat == FormatCall

SpecFormat == InitFormat /\ [][NextFormat]_vars

\* ------------------------------------------- MusicGPTAPI.poll_for_result

\* max_retries = 5
max_retries == 5

\* retry_delay = 30
retry_delay == 30

\* eta_seconds as the server's first answer gives it.
Etas == {-30, 0, 45}

\* conversion.status: the values the code tests, one it does not know, and
\* "none" for an answer without the key.
Statuses ==
    {"COMPLETED", "FAILED", "PENDING", "PROCESSING", "IN_PROGRESS", "QUEUED", "none"}

\* The tracks of an answer, 1 and 2.
Tracks == {1, 2}

\* What a call of get_task_result ends with: an exception (no API key, an
\* answer that is not JSON), or a dictionary: the server's JSON, or the one
\* with the key "error" that get_task_result makes of a status other than
\* 200 and of a RequestException. paths are the tracks with a
\* conversion_path.
Answers ==
    {[kind |-> "raise"]}
      \cup [kind : {"dict"}, error : BOOLEAN, success : BOOLEAN,
            status : Statuses, paths : SUBSET Tracks,
            has_downloaded_files : {FALSE}, downloaded_files : {<<>>}]

\* "error" not in result
NoError(a) == a.kind = "dict" /\ ~a.error

\* result.get("success") or conversion_data.get("status") == "COMPLETED"
Completed(a) == NoError(a) /\ (a.success \/ a.status = "COMPLETED")

\* elif conversion_data.get("status") == "FAILED"
Failed(a) == NoError(a) /\ ~Completed(a) /\ a.status = "FAILED"

\* A poll after which the loop goes on.
NotYet(a) == a.kind = "dict" /\ ~Completed(a) /\ ~Failed(a)

\* The tracks of S in the order of `for i in [1, 2]`.
InOrder(S) ==
    (IF 1 \in S THEN <<1>> ELSE <<>>) \o (IF 2 \in S THEN <<2>> ELSE <<>>)

\* A variant that sleeps after every poll, the last one included.
SleepsAfterEveryPoll(a) == TRUE

\* if attempt < max_retries - 1
SleepsBeforeRetry(a) == a < max_retries - 1

\* {"status": "timeout", ...}
TimeoutResult == [kind |-> "timeout"]

\* An exception leaves poll_for_result.
RaisedResult == [kind |-> "raise"]

InitPoll ==
    /\ StitchIdle
    /\ FormatIdle
    /\ PollIdle
    /\ WebhookIdle
    /\ MainIdle
    /\ RenameIdle

PollCall ==
    /\ poll_pc = "idle"
    /\ eta_seconds' \in Etas
    /\ poll_pc' = "sleep"
    /\ UNCHANGED << attempt, calls, sleeps, result, downloads, poll_ret,
                    beside_poll >>

\* time.sleep(eta_seconds + 20)
InitialWait ==
    /\ poll_pc = "sleep"
    /\ eta_seconds + 20 >= 0
    /\ sleeps' = <<eta_seconds + 20>>
    /\ attempt' = 0
    /\ poll_pc' = "poll"
    /\ UNCHANGED << eta_seconds, calls, result, downloads, poll_ret,
                    beside_poll >>

\* time.sleep raises ValueError on a negative length.
InitialWaitRaises ==
    /\ poll_pc = "sleep"
    /\ eta_seconds + 20 < 0
    /\ poll_ret' = RaisedResult
    /\ poll_pc' = "done"
    /\ UNCHANGED << eta_seconds, attempt, calls, sleeps, result, downloads,
                    beside_poll >>

\* get_task_result raises.
PollRaises ==
    /\ poll_pc = "poll"
    /\ calls' = calls + 1
    /\ result' = [kind |-> "raise"]
    /\ poll_ret' = RaisedResult
    /\ poll_pc' = "done"
    /\ UNCHANGED << eta_seconds, attempt, sleeps, downloads,
                    beside_poll >>

\* return self._process_polling_result(result, song_names)
PollCompleted ==
    /\ poll_pc = "poll"
    /\ calls' = calls + 1
    /\ \E a \in Answers :
        /\ Completed(a)
        /\ result' = a
        /\ IF ~a.success
           THEN /\ poll_ret' = a
                /\ UNCHANGED downloads
           ELSE /\ downloads' = InOrder(a.paths)
                /\ \E got \in SUBSET a.paths :
                       poll_ret' = [a EXCEPT !.has_downloaded_files = TRUE,
                                             !.downloaded_files = InOrder(got)]
    /\ poll_pc' = "done"
    /\ UNCHANGED << eta_seconds, attempt, sleeps, beside_poll >>

\* status FAILED: return result
PollFailed ==
    /\ poll_pc = "poll"
    /\ calls' = calls + 1
    /\ \E a \in Answers :
        /\ Failed(a)
        /\ result' = a
        /\ poll_ret' = a
    /\ poll_pc' = "done"
    /\ UNCHANGED << eta_seconds, attempt, sleeps, downloads,
                    beside_poll >>

\* An error, a status still in progress or an unknown one, and the loop has
\* another iteration.
PollAgain ==
    /\ poll_pc = "poll"
    /\ attempt + 1 < max_retries
    /\ calls' = calls + 1
    /\ \E a \in Answers :
        /\ NotYet(a)
        /\ result' = a
    /\ sleeps' = IF SleepsBeforeRetry(attempt)
                 THEN Append(sleeps, retry_delay)
                 ELSE sleeps
    /\ attempt' = attempt + 1
    /\ UNCHANGED << poll_pc, eta_seconds, downloads, poll_ret,
                    beside_poll >>

\* The same on the last iteration: the loop ends and the timeout is returned.
PollTimeout ==
    /\ poll_pc = "poll"
    /\ attempt + 1 >= max_retries
    /\ calls' = calls + 1
    /\ \E a \in Answers :
        /\ NotYet(a)
        /\ result' = a
    /\ sleeps' = IF SleepsBeforeRetry(attempt)
                 THEN Append(sleeps, retry_delay)
                 ELSE sleeps
    /\ poll_ret' = TimeoutResult
    /\ poll_pc' = "done"
    /\ UNCHANGED << eta_seconds, attempt, downloads, beside_poll >>

NextPoll ==
    \/ PollCall
    \/ InitialWait
    \/ InitialWaitRaises
    \/ PollRaises
    \/ PollCompleted
    \/ PollFailed
    \/ PollAgain
    \/ PollTimeout

\* poll_for_result is sequential code: every sleep ends and every request is
\* answered, so the call takes its next step.
SpecPoll == InitPoll /\ [][NextPoll]_vars /\ WF_vars(NextPoll)

\* ----------------------- MusicGPTAPI.generate_music with the WebhookServer

\* The clock stops here.
MaxClock == 64

\* time.sleep(2) of get_result
SleepSeconds == 2

\* The default "unknown" of result.get("eta", "unknown").
EtaUnknown == -1

\* result.get("eta", "unknown"): a number of seconds, or the default.
WebhookEtas == {0, 1, EtaUnknown}

InitWebhook ==
    /\ StitchIdle
    /\ FormatIdle
    /\ PollIdle
    /\ WebhookIdle
    /\ MainIdle
    /\ RenameIdle

GenerateCall ==
    /\ gen_pc = "idle"
    /\ use_webhook' \in BOOLEAN
    /\ gen_pc' = "start"
    /\ UNCHANGED << server, server_started, posted, in_results, stored_at,
                    clock, start_time, timeout, wake_at, gen_ret, beside_webhook >>

\* use_webhook is false: no WebhookServer is made.
NoWebhook ==
    /\ gen_pc = "start"
    /\ ~use_webhook
    /\ gen_pc' = "post"
    /\ UNCHANGED << use_webhook, server, server_started, posted, in_results,
                    stored_at, clock, start_time, timeout, wake_at, gen_ret,
                    beside_webhook >>

\* start_server returns True: the socket is bound and serve_forever runs in
\* its thread.
StartServer ==
    /\ gen_pc = "start"
    /\ use_webhook
    /\ server' = "listening"
    /\ server_started' = TRUE
    /\ gen_pc' = "post"
    /\ UNCHANGED << use_webhook, posted, in_results, stored_at, clock,
                    start_time, timeout, wake_at, gen_ret, beside_webhook >>

\* start_server returns False: HTTPServer(...) raised (self.server stays
\* None), or the thread could not be started after the socket was bound.
StartServerFails ==
    /\ gen_pc = "start"
    /\ use_webhook
    /\ server' \in {"none", "bound"}
    /\ gen_pc' = "post"
    /\ UNCHANGED << use_webhook, server_started, posted, in_results, stored_at,
                    clock, start_time, timeout, wake_at, gen_ret, beside_webhook >>

\* The POST ends with a status other than 200, with success false, or with
\* a RequestException: return None.
PostRejected ==
    /\ gen_pc = "post"
    /\ gen_ret' = [kind |-> "none"]
    /\ gen_pc' = "finally"
    /\ UNCHANGED << use_webhook, server, server_started, posted, in_results,
                    stored_at, clock, start_time, timeout, wake_at,
                    beside_webhook >>

\* Another exception (response.json() on a body that is not JSON) leaves the
\* try block.
PostRaises ==
    /\ gen_pc = "post"
    /\ gen_ret' = [kind |-> "raise"]
    /\ gen_pc' = "finally"
    /\ UNCHANGED << use_webhook, server, server_started, posted, in_results,
                    stored_at, clock, start_time, timeout, wake_at,
                    beside_webhook >>

\* Status 200 with success true.
PostAccepted ==
    /\ gen_pc = "post"
    /\ \E task_id \in BOOLEAN, eta \in WebhookEtas :
        /\ posted' = task_id
        /\ IF use_webhook /\ task_id
           THEN IF eta = EtaUnknown
                THEN \* "unknown" + 60 raises TypeError
                     /\ gen_ret' = [kind |-> "raise"]
                     /\ gen_pc' = "finally"
                     /\ UNCHANGED << start_time, timeout >>
                ELSE /\ start_time' = clock
                     /\ timeout' = eta + 60
                     /\ gen_pc' = "wait_test"
                     /\ UNCHANGED gen_ret
           ELSE /\ gen_ret' = [kind |-> "result"]
                /\ gen_pc' = "finally"
                /\ UNCHANGED << start_time, timeout >>
    /\ UNCHANGED << use_webhook, server, server_started, in_results, stored_at,
                    clock, wake_at, beside_webhook >>

\* The handler thread: do_POST stores the webhook of the task.
Store ==
    /\ server = "listening"
    /\ posted
    /\ ~in_results
    /\ in_results' = TRUE
    /\ stored_at' = clock
    /\ UNCHANGED << gen_pc, use_webhook, server, server_started, posted, clock,
                    start_time, timeout, wake_at, gen_ret, beside_webhook >>

\* while time.time() - start_time < timeout
InTime == clock - start_time < timeout

\* The loop of get_result ends without the webhook.
WaitOver == gen_pc = "wait_test" /\ ~InTime

\* get_result finds the webhook: _process_webhook_result's value is returned.
WaitFound ==
    /\ gen_pc = "wait_test"
    /\ InTime
    /\ in_results
    /\ gen_ret' = [kind |-> "webhook"]
    /\ gen_pc' = "finally"
    /\ UNCHANGED << use_webhook, server, server_started, posted, in_results,
                    stored_at, clock, start_time, timeout, wake_at,
                    beside_webhook >>

\* get_result does not find it: time.sleep(2).
WaitSleep ==
    /\ gen_pc = "wait_test"
    /\ InTime
    /\ ~in_results
    /\ wake_at' = clock + SleepSeconds
    /\ gen_pc' = "wait_sleep"
    /\ UNCHANGED << use_webhook, server, server_started, posted, in_results,
                    stored_at, clock, start_time, timeout, gen_ret,
                    beside_webhook >>

\* get_result returns None: {"task_id": task_id, "status": "timeout"}.
WaitTimeout ==
    /\ WaitOver
    /\ gen_ret' = [kind |-> "timeout"]
    /\ gen_pc' = "finally"
    /\ UNCHANGED << use_webhook, server, server_started, posted, in_results,
                    stored_at, clock, start_time, timeout, wake_at,
                    beside_webhook >>

\* A second passes while get_result sleeps.
Tick ==
    /\ gen_pc = "wait_sleep"
    /\ clock < wake_at
    /\ clock < MaxClock
    /\ clock' = clock + 1
    /\ UNCHANGED << gen_pc, use_webhook, server, server_started, posted,
                    in_results, stored_at, start_time, timeout, wake_at,
                    gen_ret, beside_webhook >>

\* time.sleep(2) returns.
Wake ==
    /\ gen_pc = "wait_sleep"
    /\ clock >= wake_at
    /\ gen_pc' = "wait_test"
    /\ UNCHANGED << use_webhook, server, server_started, posted, in_results,
                    stored_at, clock, start_time, timeout, wake_at, gen_ret,
                    beside_webhook >>

\* An exception raised while get_result sleeps (KeyboardInterrupt).
WaitInterrupted ==
    /\ gen_pc = "wait_sleep"
    /\ gen_ret' = [kind |-> "raise"]
    /\ gen_pc' = "finally"
    /\ UNCHANGED << use_webhook, server, server_started, posted, in_results,
                    stored_at, clock, start_time, timeout, wake_at,
                    beside_webhook >>

\* A variant of stop_server that leaves the server as it is.
StopServerNothing(srv) == srv

\* stop_server: shutdown() and server_close() when self.server is set.
stop_server(srv) == IF srv = "listening" THEN "closed" ELSE srv

\* finally: if self.webhook_server: self.webhook_server.stop_server()
GenerateFinally ==
    /\ gen_pc = "finally"
    /\ server # "bound"
    /\ server' = IF use_webhook THEN stop_server(server) ELSE server
    /\ gen_pc' = "done"
    /\ UNCHANGED << use_webhook, server_started, posted, in_results, stored_at,
                    clock, start_time, timeout, wake_at, gen_ret,
                    beside_webhook >>

\* The same when serve_forever was never started: shutdown() waits for it
\* for ever and the call does not end.
GenerateFinallyHangs ==
    /\ gen_pc = "finally"
    /\ server = "bound"
    /\ gen_pc' = "hung"
    /\ UNCHANGED << use_webhook, server, server_started, posted, in_results,
                    stored_at, clock, start_time, timeout, wake_at, gen_ret,
                    beside_webhook >>

NextWebhook ==
    \/ GenerateCall
    \/ NoWebhook
    \/ StartServer
    \/ StartServerFails
    \/ PostRejected
    \/ PostRaises
    \/ PostAccepted
    \/ Store
    \/ WaitFound
    \/ WaitSleep
    \/ WaitTimeout
    \/ Tick
    \/ Wake
    \/ WaitInterrupted
    \/ GenerateFinally
    \/ GenerateFinallyHangs

SpecWebhook == InitWebhook /\ [][NextWebhook]_vars

\* ------------------------------------------------------------ rename_songs

\* The lists of song names: every list of at most MaxNames names.
NameLists == UNION {[1..k -> Names] : k \in 0..MaxNames}

\* sorted(glob.glob('songs/*.mp3'))
RECURSIVE SortedFiles(_, _)
SortedFiles(f, n) ==
    IF n > MaxNames
    THEN <<>>
    ELSE (IF f[n] # NoFile THEN <<n>> ELSE <<>>) \o SortedFiles(f, n + 1)

\* min(len(mp3_files), len(song_names))
min_count == IF Len(mp3_files) < Len(song_names) THEN Len(mp3_files) ELSE Len(song_names)

\* A variant that never finds the target.
TargetNeverExists(f, new_file) == FALSE

\* os.path.exists(new_file)
TargetExists(f, new_file) == f[new_file] # NoFile

\* os.rename(old_file, new_file): the target's content is replaced.
Rename(f, old_file, new_file) ==
    IF old_file = new_file
    THEN f
    ELSE [f EXCEPT ![new_file] = f[old_file], ![old_file] = NoFile]

InitRename ==
    /\ StitchIdle
    /\ FormatIdle
    /\ PollIdle
    /\ WebhookIdle
    /\ MainIdle
    /\ rn_pc = "idle"
    /\ call_no = 1
    /\ \E present \in SUBSET Names :
           songs_folder = [n \in Names |-> IF n \in present THEN n ELSE NoFile]
    /\ files_before = songs_folder
    /\ files_after_first = songs_folder
    /\ song_names \in NameLists
    /\ mp3_files = <<>>
    /\ rn_i = 0
    /\ tried = 0
    /\ renamed = 0
    /\ rename_error = FALSE

\* if not song_names: return
RenameNoNames ==
    /\ rn_pc = "idle"
    /\ song_names = <<>>
    /\ rn_pc' = "done"
    /\ UNCHANGED << call_no, songs_folder, files_before, files_after_first, song_names,
                    mp3_files, rn_i, tried, renamed, rename_error, beside_rename >>

\* The list of songs_folder is made, once, before the loop.
RenameCall ==
    /\ rn_pc = "idle"
    /\ song_names # <<>>
    /\ mp3_files' = SortedFiles(songs_folder, 1)
    /\ rn_i' = 0
    /\ rn_pc' = "loop"
    /\ UNCHANGED << call_no, songs_folder, files_before, files_after_first, song_names,
                    tried, renamed, rename_error, beside_rename >>

\* The target exists: continue.
RenameSkip ==
    /\ rn_pc = "loop"
    /\ rn_i < min_count
    /\ TargetExists(songs_folder, song_names[rn_i + 1])
    /\ rn_i' = rn_i + 1
    /\ UNCHANGED << rn_pc, call_no, songs_folder, files_before, files_after_first,
                    song_names, mp3_files, tried, renamed, rename_error,
                    beside_rename >>

\* os.rename(old_file, new_file)
RenameFile ==
    /\ rn_pc = "loop"
    /\ rn_i < min_count
    /\ ~TargetExists(songs_folder, song_names[rn_i + 1])
    /\ songs_folder' = Rename(songs_folder, mp3_files[rn_i + 1], song_names[rn_i + 1])
    /\ tried' = tried + 1
    /\ renamed' = renamed + 1
    /\ rn_i' = rn_i + 1
    /\ UNCHANGED << rn_pc, call_no, files_before, files_after_first, song_names,
                    mp3_files, rename_error, beside_rename >>

\* os.rename raises: the error is printed and the loop goes on.
RenameRaises ==
    /\ rn_pc = "loop"
    /\ rn_i < min_count
    /\ ~TargetExists(songs_folder, song_names[rn_i + 1])
    /\ tried' = tried + 1
    /\ rename_error' = TRUE
    /\ rn_i' = rn_i + 1
    /\ UNCHANGED << rn_pc, call_no, songs_folder, files_before, files_after_first,
                    song_names, mp3_files, renamed, beside_rename >>

\* The loop is over.
RenameReturn ==
    /\ rn_pc = "loop"
    /\ rn_i >= min_count
    /\ rn_pc' = "done"
    /\ UNCHANGED << call_no, songs_folder, files_before, files_after_first, song_names,
                    mp3_files, rn_i, tried, renamed, rename_error, beside_rename >>

\* main runs again: rename_songs is called with the same names.
RenameAgain ==
    /\ rn_pc = "done"
    /\ call_no = 1
    /\ call_no' = 2
    /\ files_after_first' = songs_folder
    /\ rn_pc' = "idle"
    /\ rn_i' = 0
    /\ tried' = 0
    /\ renamed' = 0
    /\ mp3_files' = <<>>
    /\ UNCHANGED << songs_folder, files_before, song_names, rename_error, beside_rename >>

NextRename ==
    \/ RenameNoNames
    \/ RenameCall
    \/ RenameSkip
    \/ RenameFile
    \/ RenameRaises
    \/ RenameReturn
    \/ RenameAgain

SpecRename == InitRename /\ [][NextRename]_vars

\* ===================================================================== main

\* ------------------------------------------------- load_and_clean_tracklist

\* ':' in line, on the tokens a tracklist file is made of.
HasColon(text) ==
    \E j \in DOMAIN text :
        text[j] \in {":", "Tracklist for: ", "Generated on: ", NowText}

\* '-' in line
HasDash(text) == \E j \in DOMAIN text : text[j] \in {" - ", "-", NowText}

\* The only token that holds the separator ' - '.
Separators(text) == {j \in DOMAIN text : text[j] = " - "}

\* str.strip() on a piece of a line.
RECURSIVE StripText(_)
StripText(text) ==
    IF text = <<>>
    THEN text
    ELSE IF Head(text) = " "
         THEN StripText(Tail(text))
         ELSE IF text[Len(text)] = " "
              THEN StripText(SubSeq(text, 1, Len(text) - 1))
              ELSE text

\* line.split(' - ', 1): at the first separator only.
SplitOnce(text) ==
    IF Separators(text) = {}
    THEN << text >>
    ELSE LET p == CHOOSE j \in Separators(text) :
                      \A k \in Separators(text) : j <= k
         IN  << SubSeq(text, 1, p - 1), SubSeq(text, p + 1, Len(text)) >>

\* The token ends with a white space character.
EndsWithSpace(token) ==
    token \in {" ", ". ", " - ", "Tracklist for: ", "Generated on: "}

\* The token starts with eight decimal digits.
StartsWithEightDigits(token) == token \in {"20240101", "20250808", NowStamp}

\* The token without its last character, a white space.
WithoutLastSpace(token) ==
    CASE token = " " -> <<>>
      [] token = ". " -> <<".">>
      [] token = " - " -> <<" -">>
      [] token = "Tracklist for: " -> <<"Tracklist for:">>
      [] token = "Generated on: " -> <<"Generated on:">>
      [] OTHER -> <<token>>

\* Where r"\s\d{8}" matches: a white space and then eight digits.
DateMatches(text) ==
    {j \in DOMAIN text :
        j > 1 /\ EndsWithSpace(text[j - 1]) /\ StartsWithEightDigits(text[j])}

\* re.sub(r"\s\d{8}.*", "", timestamp): the line is cut at the first match.
CleanTimestamp(text) ==
    IF DateMatches(text) = {}
    THEN text
    ELSE LET j == CHOOSE x \in DateMatches(text) :
                      \A y \in DateMatches(text) : x <= y
         IN  SubSeq(text, 1, j - 2) \o WithoutLastSpace(text[j - 1])

\* The loop over the lines: a line is kept when it holds ':' and '-' and
\* splits at ' - ' in two.
RECURSIVE LoadedTimestamps(_)
LoadedTimestamps(file_lines) ==
    IF file_lines = <<>>
    THEN <<>>
    ELSE LET stripped == StripText(Head(file_lines))
             pieces == SplitOnce(stripped)
         IN  IF HasColon(stripped) /\ HasDash(stripped) /\ Len(pieces) = 2
             THEN << StripText(pieces[1]) \o <<" ">> \o StripText(pieces[2]) >>
                  \o LoadedTimestamps(Tail(file_lines))
             ELSE LoadedTimestamps(Tail(file_lines))

\* The lines of the returned string, which joins them with "\n".
load_and_clean_tracklist(file_lines) ==
    LET loaded == LoadedTimestamps(file_lines)
    IN  [j \in DOMAIN loaded |-> CleanTimestamp(loaded[j])]

\* --------------------------------------------------------------------- main

Scripts == {"main", "main_dnb_test"}

\* The titles of the playlists in the JSON data, by index.
PlaylistData ==
    << [title |-> <<"Chill", " ", "Mix">>],
       [title |-> <<"Chill", " - ", "Mix">>] >>

\* The values of the parameter index: the playlists and one past them.
MaxIndex == 2

\* The song titles extract_song_title makes of rain.mp3, night_drive.mp3 and
\* valley_below_20250808_120636.mp3.
SongTitles ==
    { <<"Rain">>, <<"Night", "Drive">>,
      <<"Valley", "Below", "20250808", "120636">> }

MaxTitles == 2

TitleLists == UNION {[1..n -> SongTitles] : n \in 1..MaxTitles}

\* The time from one entry of the timeline to the next.
EntrySteps == {Sec(95), Sec(1900)}

\* A timeline as calculate_timestamps builds it: the producer tag first if
\* there is one, then the songs, at rising start times.
Timeline(intro, titles, step) ==
    LET all == IF intro THEN <<ProducerTagTitle>> \o titles ELSE titles
    IN  [j \in DOMAIN all |-> [title |-> all[j], start_time |-> (j - 1) * step]]

\* result_mp3.replace(".mp3", ".mp4")
Mp4Path(path) ==
    [j \in DOMAIN path |-> IF path[j] = ".mp3" THEN ".mp4" ELSE path[j]]

\* The ways convert_audio_to_video ends once the audio file exists.
ConvertOutcomes == {"No image file found", "Failed to create video", "created"}

InitMain ==
    /\ StitchIdle
    /\ FormatIdle
    /\ PollIdle
    /\ WebhookIdle
    /\ RenameIdle
    /\ MainIdle

MainCall ==
    /\ main_pc = "idle"
    /\ script' \in Scripts
    /\ playlist_index' \in 0..MaxIndex
    /\ main_pc' = "load"
    /\ UNCHANGED << playlist_data, steps, main_console, result_mp3,
                    main_timeline, tracklist_on_disk, result_mp4,
                    timestamps_desc, description_file, main_raised,
                    beside_main >>

\* playlist_data = lofi_playlist_data[index]
MainLoad ==
    /\ main_pc = "load"
    /\ playlist_index < Len(PlaylistData)
    /\ playlist_data' = PlaylistData[playlist_index + 1]
    /\ main_pc' = "first"
    /\ UNCHANGED << script, playlist_index, steps, main_console, result_mp3,
                    main_timeline, tracklist_on_disk, result_mp4,
                    timestamps_desc, description_file, main_raised,
                    beside_main >>

\* The index is past the end of the list.
MainLoadRaises ==
    /\ main_pc = "load"
    /\ playlist_index >= Len(PlaylistData)
    /\ main_raised' = "IndexError"
    /\ main_pc' = "raised"
    /\ UNCHANGED << script, playlist_index, playlist_data, steps, main_console,
                    result_mp3, main_timeline, tracklist_on_disk, result_mp4,
                    timestamps_desc, description_file, beside_main >>

\* rename_songs(song_names), which catches what os.rename raises.
MainRename ==
    /\ main_pc = "first"
    /\ script = "main"
    /\ steps' = Append(steps, "rename")
    /\ main_pc' = "stitch"
    /\ UNCHANGED << script, playlist_index, playlist_data, main_console,
                    result_mp3, main_timeline, tracklist_on_disk, result_mp4,
                    timestamps_desc, description_file, main_raised,
                    beside_main >>

\* The test script generates the songs where main renames them.
MainGenerate ==
    /\ main_pc = "first"
    /\ script = "main_dnb_test"
    /\ steps' = Append(steps, "generate")
    /\ main_pc' = "stitch"
    /\ UNCHANGED << script, playlist_index, playlist_data, main_console,
                    result_mp3, main_timeline, tracklist_on_disk, result_mp4,
                    timestamps_desc, description_file, main_raised,
                    beside_main >>

\* stitch_audio_files returns None; main prints the failure and goes on.
MainStitchFails ==
    /\ main_pc = "stitch"
    /\ steps' = Append(steps, "stitch")
    /\ result_mp3' = NoneValue
    /\ main_console' = Append(main_console, "Audio stitching failed!")
    /\ main_pc' = "convert"
    /\ UNCHANGED << script, playlist_index, playlist_data, main_timeline,
                    tracklist_on_disk, result_mp4, timestamps_desc,
                    description_file, main_raised, beside_main >>

\* stitch_audio_files writes the mix and its tracklist and returns the path.
MainStitch ==
    /\ main_pc = "stitch"
    /\ \E intro \in BOOLEAN, titles \in TitleLists, step \in EntrySteps :
           /\ main_timeline' = Timeline(intro, titles, step)
           /\ result_mp3' = GeneratedName(playlist_data.title)
           /\ tracklist_on_disk' = TracklistText(result_mp3', main_timeline')
    /\ steps' = Append(steps, "stitch")
    /\ main_console' = Append(main_console, "Audio stitching complete!")
    /\ main_pc' = "convert"
    /\ UNCHANGED << script, playlist_index, playlist_data, result_mp4,
                    timestamps_desc, description_file, main_raised,
                    beside_main >>

\* The argument result_mp3.replace(".mp3", ".mp4") is evaluated before the
\* call: None has no replace.
MainConvertRaises ==
    /\ main_pc = "convert"
    /\ result_mp3 = NoneValue
    /\ main_raised' = "AttributeError"
    /\ main_pc' = "raised"
    /\ UNCHANGED << script, playlist_index, playlist_data, steps, main_console,
                    result_mp3, main_timeline, tracklist_on_disk, result_mp4,
                    timestamps_desc, description_file, beside_main >>

\* convert_audio_to_video, and what main prints of its result.
MainConvert ==
    /\ main_pc = "convert"
    /\ result_mp3 # NoneValue
    /\ \E outcome \in ConvertOutcomes :
           /\ result_mp4' = IF outcome = "created"
                            THEN Mp4Path(result_mp3)
                            ELSE NoneValue
           /\ main_console' =
                  Append(main_console,
                         IF outcome = "created"
                         THEN "Conversion complete!"
                         ELSE "Conversion failed!")
    /\ steps' = Append(steps, "convert")
    /\ main_pc' = "describe"
    /\ UNCHANGED << script, playlist_index, playlist_data, result_mp3,
                    main_timeline, tracklist_on_disk, timestamps_desc,
                    description_file, main_raised, beside_main >>

\* generate_description runs whether the conversion failed or not.
MainDescribe ==
    /\ main_pc = "describe"
    /\ timestamps_desc' = load_and_clean_tracklist(tracklist_on_disk)
    /\ steps' = Append(steps, "describe")
    /\ main_pc' = "save"
    /\ UNCHANGED << script, playlist_index, playlist_data, main_console,
                    result_mp3, main_timeline, tracklist_on_disk, result_mp4,
                    description_file, main_raised, beside_main >>

\* result_mp4.replace(".mp4", "_description.txt") on None.
MainSaveRaises ==
    /\ main_pc = "save"
    /\ result_mp4 = NoneValue
    /\ main_raised' = "AttributeError"
    /\ main_pc' = "raised"
    /\ UNCHANGED << script, playlist_index, playlist_data, steps, main_console,
                    result_mp3, main_timeline, tracklist_on_disk, result_mp4,
                    timestamps_desc, description_file, beside_main >>

\* The description is written next to the video.
MainSave ==
    /\ main_pc = "save"
    /\ result_mp4 # NoneValue
    /\ description_file' = "written"
    /\ steps' = Append(steps, "save")
    /\ main_pc' = "done"
    /\ UNCHANGED << script, playlist_index, playlist_data, main_console,
                    result_mp3, main_timeline, tracklist_on_disk, result_mp4,
                    timestamps_desc, main_raised, beside_main >>

NextMain ==
    \/ MainCall
    \/ MainLoad
    \/ MainLoadRaises
    \/ MainRename
    \/ MainGenerate
    \/ MainStitchFails
    \/ MainStitch
    \/ MainConvertRaises
    \/ MainConvert
    \/ MainDescribe
    \/ MainSaveRaises
    \/ MainSave

SpecMain == InitMain /\ [][NextMain]_vars

\* ================================================================== claims

Intro == producer_tag # NoTag

\* Index of song i (1-based) in timestamps and, less one, among the inputs.
Offset == IF Intro THEN 1 ELSE 0

TimestampsComputed == timestamps # <<>>

Returned == pc = "done"

\* The graph is the delay-based one: it mixes with amix.
DelayBased(c) == \E j \in DOMAIN c.filter : c.filter[j].op = "amix"

\* The input a label carries, through single-input filters; -1 if none.
RECURSIVE SourceInput(_, _)
SourceInput(filter, label) ==
    IF label.k = "in"
    THEN label.n
    ELSE LET made == {j \in DOMAIN filter : filter[j].out = label}
         IN  IF made = {}
             THEN -1
             ELSE LET j == CHOOSE x \in made : TRUE
                  IN  IF Len(filter[j].ins) = 1
                      THEN SourceInput(filter, filter[j].ins[1])
                      ELSE -1

\* The adelay in milliseconds applied to input k; 0 when it has none.
AdelayMs(c, k) ==
    LET ds == {j \in DOMAIN c.filter :
                  /\ c.filter[j].op = "adelay"
                  /\ SourceInput(c.filter, c.filter[j].ins[1]) = k}
    IN  IF ds = {} THEN 0 ELSE c.filter[CHOOSE x \in ds : TRUE].arg

\* C1: in every delay-based graph for two or more songs, the adelay of each
\* song, in whole milliseconds, is the start time calculate_timestamps gives
\* that song (a song with no adelay counting as delay 0).
C1_AdelayIsStartTime ==
    (cmd.built /\ Len(audio_files) >= 2 /\ DelayBased(cmd)) =>
        \A i \in 1..Len(audio_files) :
            AdelayMs(cmd, i - 1 + Offset) = ToMs(timestamps[i + Offset].start_time)

\* Sum of the durations of the first k files.
RECURSIVE SumDurations(_, _)
SumDurations(files, k) ==
    IF k = 0 THEN 0 ELSE SumDurations(files, k - 1) + get_audio_duration(files[k])

\* C2: with no intro, clip 0 starts at 0 and clip i (0-based) starts at
\* sum(duration[0..i-1]) - i*fade + i*silence.
C2_StartTimeClosedForm ==
    (TimestampsComputed /\ ~Intro) =>
        /\ Len(timestamps) = Len(audio_files)
        /\ timestamps[1].start_time = 0
        /\ \A i \in 0..(Len(audio_files) - 1) :
               timestamps[i + 1].start_time =
                   SumDurations(audio_files, i) - i * fade_duration
                       + i * silence_duration

\* Three clips of 100 s and 120 s (and any third), fade 5 s, silence 6 s:
\* the third starts at 100 + 120 - 10 + 12 = 222 s.
C2_Witness ==
    /\ Returned
    /\ ~Intro
    /\ fade_duration = Sec(5)
    /\ silence_duration = Sec(6)
    /\ Len(timestamps) = 3
    /\ timestamps[1].duration = Sec(100)
    /\ timestamps[2].duration = Sec(120)
    /\ timestamps[3].start_time = Sec(222)

\* C3: with an existing intro of duration D, against the same call without
\* intro: one more entry, first, at time 0 with duration D and the title
\* 'Producer Tag'; the songs follow in the same order with the same titles
\* and durations, each start time D later.
C3_IntroShiftsByItsDuration ==
    (TimestampsComputed /\ Intro) =>
        LET D == get_audio_duration(producer_tag)
            without == calculate_timestamps(audio_files, fade_duration,
                                            silence_duration, NoTag)
        IN  /\ Len(timestamps) = Len(without) + 1
            /\ timestamps[1] = [file |-> producer_tag, title |-> ProducerTagTitle,
                                start_time |-> 0, duration |-> D]
            /\ \A i \in 1..Len(without) :
                   timestamps[i + 1] =
                       [without[i] EXCEPT !.start_time = without[i].start_time + D]

C3_Witness ==
    /\ Returned
    /\ Intro
    /\ probe[producer_tag] = Sec(10) + 1
    /\ Len(audio_files) = 2
    /\ timestamps[2].start_time = Sec(10) + 1
    /\ timestamps[3].start_time > Sec(10) + 1

\* C4: the timeline entries are strictly ordered by start time.
C4_StrictlyOrdered ==
    \A i \in 2..Len(timestamps) :
        timestamps[i].start_time > timestamps[i - 1].start_time

\* C5: with an empty clip list the call returns None, builds no command and
\* runs no mix, whatever the other parameters.
C5_EmptyListFails ==
    (pc # "idle" /\ folder = {}) =>
        /\ ~cmd.built
        /\ runs = 0
        /\ pc \in {"validate", "done"}
        /\ Returned => ret = NoneValue

\* The folder exists, ffmpeg is there, a producer tag is given and exists,
\* and no audio file is found.
C5_Witness ==
    /\ Returned
    /\ folder_exists /\ ffmpeg_ok /\ folder = {}
    /\ Intro /\ tag_exists
    /\ fade_duration = Sec(5) /\ silence_duration = Sec(6)
    /\ ret = NoneValue

\* The entry lines of the tracklist file: what follows its three header lines.
FileEntryLines == SubSeq(tracklist_lines, 4, Len(tracklist_lines))

Succeeded == Returned /\ ret # NoneValue

\* '<format_timestamp(start_time)> - <NN>. <title>' for the i-th song, NN = nn.
NumberedLine(entry, nn, title) ==
    format_timestamp(entry.start_time) \o <<" - ">> \o Format02d(nn)
        \o <<". ">> \o JoinWords(title)

\* '<format_timestamp(start_time)> - Producer Tag'
ProducerTagLine(entry) ==
    format_timestamp(entry.start_time) \o <<" - ", "Producer", " ", "Tag">>

\* C6: after a successful stitch with no intro the tracklist holds one line
\* per clip, in clip order, the i-th (0-based) reading
\* '<format_timestamp(start_time_i)> - <i+1 on two digits>. <title_i>'; for
\* durations [100,120,90], fade 5, silence 0 the lines start
\* '00:00 - 01. ', '01:35 - 02. ', '03:30 - 03. '.
C6_TracklistLinePerClip ==
    (Succeeded /\ ~Intro) =>
        /\ FileEntryLines =
               [i \in 1..Len(audio_files) |->
                   NumberedLine(timestamps[i], i, extract_song_title(audio_files[i]))]
        /\ ( /\ Len(audio_files) = 3
             /\ probe[audio_files[1]] = Sec(100)
             /\ probe[audio_files[2]] = Sec(120)
             /\ probe[audio_files[3]] = Sec(90)
             /\ fade_duration = Sec(5)
             /\ silence_duration = 0 ) =>
               /\ SubSeq(FileEntryLines[1], 1, 8)
                      = <<"0", "0", ":", "0", "0", " - ", "0", "1">>
               /\ SubSeq(FileEntryLines[2], 1, 8)
                      = <<"0", "1", ":", "3", "5", " - ", "0", "2">>
               /\ SubSeq(FileEntryLines[3], 1, 8)
                      = <<"0", "3", ":", "3", "0", " - ", "0", "3">>

\* C7: in the tracklist, printed and written, the intro clip and only the
\* intro clip is an unnumbered 'Producer Tag' line; the songs are numbered
\* 01, 02, ... consecutively in mix order.
C7_OnlyIntroUnnumbered ==
    Succeeded =>
        \A lines \in {console, FileEntryLines} :
            /\ Len(lines) = Len(timestamps)
            /\ \A j \in 1..Len(timestamps) :
                   IF Intro /\ j = 1
                   THEN lines[j] = ProducerTagLine(timestamps[j])
                   ELSE lines[j] = NumberedLine(timestamps[j], j - Offset,
                                                timestamps[j].title)

\* The filters a command's graph is made of.
Ops(c) == {c.filter[j].op : j \in DOMAIN c.filter}

CountClass(n) == IF n = 1 THEN 1 ELSE IF n = 2 THEN 2 ELSE 3

\* The strategy of each of the 12 triples.
Strategy(class, silent, intro) ==
    IF class = 1
    THEN IF intro
         THEN IF silent THEN {"concat", "apad"} ELSE {"concat"}
         ELSE IF silent THEN {"apad"} ELSE {}
    ELSE IF intro
         THEN IF silent
              THEN {"apad", "adelay", "amix", "dynaudnorm"}
              ELSE {"adelay", "amix", "dynaudnorm"}
         ELSE IF silent
              THEN {"apad", "adelay", "amix", "dynaudnorm"}
              ELSE {"acrossfade"}

\* C8: the strategy is a function of (count class, silence > 0, intro
\* present) alone; for two or more clips acrossfade is used exactly when
\* silence = 0 and there is no intro, delay + amix + dynaudnorm exactly when
\* silence > 0 or an intro is present; every triple gets its one command.
C8_StrategyFromTriple ==
    /\ pc \in {"run", "report"} => cmd.built
    /\ cmd.built =>
        /\ Ops(cmd) = Strategy(CountClass(Len(audio_files)),
                               silence_duration > 0, Intro)
        /\ cmd.has_filter = (Ops(cmd) # {})
        /\ Len(audio_files) >= 2 =>
            /\ ("acrossfade" \in Ops(cmd)) <=> (silence_duration = 0 /\ ~Intro)
            /\ ({"adelay", "amix", "dynaudnorm"} \subseteq Ops(cmd))
                   <=> (silence_duration > 0 \/ Intro)
            /\ ("acrossfade" \in Ops(cmd)) => Ops(cmd) = {"acrossfade"}

\* Two songs, silence and no intro: the delay-based graph, not the crossfade.
C8_Witness ==
    /\ pc = "run"
    /\ Len(audio_files) = 2
    /\ silence_duration > 0
    /\ ~Intro
    /\ fade_duration = Sec(5)
    /\ Ops(cmd) = {"apad", "adelay", "amix", "dynaudnorm"}

\* C9, as claimed: the output path is returned if and only if the mix
\* command exited with code 0 and the output file exists afterwards; the
\* tracklist is written only then; otherwise None and no tracklist.
C9_PathIffExitZeroAndFile ==
    Returned =>
        /\ (ret # NoneValue) <=> (returncode = 0 /\ output_exists)
        /\ ret # NoneValue => ret = output_file
        /\ tracklist # "none" => (returncode = 0 /\ output_exists)
        /\ ~(returncode = 0 /\ output_exists) =>
               (ret = NoneValue /\ tracklist = "none")

\* C9, amended: the output path is returned if and only if the mix command
\* exited with code 0, the output file exists afterwards and no exception
\* was raised while the tracklist was written; the tracklist file is written
\* only when the command exited with 0 and the output file exists, and is
\* complete when the path is returned; otherwise None and no tracklist.
C9_PathIffExitZeroFileAndNoError ==
    Returned =>
        /\ (ret # NoneValue) <=> (returncode = 0 /\ output_exists /\ ~raised)
        /\ ret # NoneValue => (ret = output_file /\ tracklist = "complete")
        /\ tracklist # "none" => (returncode = 0 /\ output_exists)
        /\ ~(returncode = 0 /\ output_exists) =>
               (ret = NoneValue /\ tracklist = "none")

C9_Witness ==
    /\ Returned
    /\ runs = 1
    /\ returncode = 0
    /\ output_exists
    /\ ret = output_file
    /\ tracklist = "complete"

\* C10: a missing folder, missing ffmpeg, empty folder or missing producer
\* tag file makes the call return None before a command is built or run and
\* before the temporary list file, the output file or the tracklist file is
\* created; the mix command is run at most once per call.
C10_EarlyFailures ==
    /\ runs <= 1
    /\ (pc # "idle" /\ ( \/ ~folder_exists
                         \/ ~ffmpeg_ok
                         \/ folder = {}
                         \/ (Intro /\ ~tag_exists) )) =>
        /\ pc \in {"validate", "done"}
        /\ Returned => ret = NoneValue
        /\ ~cmd.built
        /\ runs = 0
        /\ ~concat_created /\ concat_file = "unset"
        /\ ~output_exists
        /\ tracklist = "none"

\* Songs were found, ffmpeg is there, the producer tag file is missing.
C10_Witness ==
    /\ Returned
    /\ folder_exists /\ ffmpeg_ok /\ folder # {}
    /\ Intro /\ ~tag_exists
    /\ ret = NoneValue
    /\ ~cmd.built

\* C11: the tracklist is written to the text file named after the produced
\* mix, its extension replaced by _tracklist.txt, a path other than the
\* mix's own, for every output_file the call accepts.
C11_TracklistBesideMix ==
    tracklist # "none" =>
        /\ tracklist_file # output_file
        /\ tracklist_file =
               SubSeq(output_file, 1, Len(output_file) - 1) \o <<"_tracklist.txt">>

\* C12: one clip and no intro: with silence > 0 the command's filter is
\* apad with pad_dur = silence_duration on the clip; with silence = 0 the
\* command has no filter expression.
C12_SingleClip ==
    (cmd.built /\ Len(audio_files) = 1 /\ ~Intro) =>
        /\ cmd.inputs = audio_files
        /\ IF silence_duration > 0
           THEN /\ cmd.has_filter
                /\ Len(cmd.filter) = 1
                /\ cmd.filter[1].op = "apad"
                /\ cmd.filter[1].ins = <<In(0)>>
                /\ cmd.filter[1].arg = silence_duration
                /\ cmd.map = cmd.filter[1].out
           ELSE /\ ~cmd.has_filter
                /\ cmd.filter = <<>>
                /\ cmd.map = NoLabel

C12_Witness ==
    /\ pc = "run"
    /\ Len(audio_files) = 1
    /\ ~Intro
    /\ silence_duration = 0
    /\ ~cmd.has_filter

\* C13: two clips, no silence, no intro: the graph is one acrossfade over
\* inputs [0] and [1] with d = fade_duration; no delay, mix or normalization.
C13_TwoClipCrossfade ==
    (cmd.built /\ Len(audio_files) = 2 /\ ~Intro /\ silence_duration = 0) =>
        /\ cmd.has_filter
        /\ Len(cmd.filter) = 1
        /\ cmd.filter[1].op = "acrossfade"
        /\ cmd.filter[1].ins = <<In(0), In(1)>>
        /\ cmd.filter[1].arg = fade_duration
        /\ Ops(cmd) \cap {"adelay", "amix", "dynaudnorm", "apad"} = {}

C13_Witness ==
    /\ pc = "run"
    /\ Len(audio_files) = 2
    /\ ~Intro
    /\ silence_duration = 0
    /\ fade_duration = 0
    /\ cmd.filter[1].arg = 0

\* How often the graph reads input k.
InputUses(c, k) ==
    Cardinality(UNION { { <<j, q>> : q \in {x \in DOMAIN c.filter[j].ins :
                                                c.filter[j].ins[x] = In(k)} } :
                        j \in DOMAIN c.filter })

ChecksPass ==
    /\ folder_exists
    /\ ffmpeg_ok
    /\ folder # {}
    /\ ~(Intro /\ ~tag_exists)

\* C15: the overlap is applied with no guard: the next clip starts at
\* start + duration - fade + silence, which is below the clip's own start
\* when fade > duration + silence and may be negative; nothing is clamped or
\* rejected and the command is still built and run.
C15_OverlapUnguarded ==
    /\ TimestampsComputed =>
        \A i \in (1 + Offset)..(Len(timestamps) - 1) :
            /\ timestamps[i + 1].start_time =
                   timestamps[i].start_time + timestamps[i].duration
                       - fade_duration + silence_duration
            /\ fade_duration > timestamps[i].duration + silence_duration =>
                   timestamps[i + 1].start_time < timestamps[i].start_time
    /\ (pc \in {"run", "report"}) => (TimestampsComputed /\ cmd.built)
    /\ (Returned /\ ChecksPass /\ ~raised) => (runs = 1 /\ cmd.built)

\* Producer tag and first song of duration 0, fade 5 s, no silence: the
\* second song starts at -5 s, is delayed by -5000 ms, and the mix was run.
C15_Witness ==
    /\ Returned
    /\ runs = 1
    /\ Intro
    /\ Len(audio_files) = 2
    /\ fade_duration = Sec(5)
    /\ timestamps[3].start_time = -Sec(5)
    /\ AdelayMs(cmd, 2) = -5000

\* The stages of a graph with the given filter.
StagesOf(c, op) == {j \in DOMAIN c.filter : c.filter[j].op = op}

\* C18: a delay-based graph with silence > 0 has exactly one apad, on the
\* first song, with pad_dur = silence_duration; with silence = 0 it has
\* none; it ends with amix followed by dynaudnorm, whose output [out] is the
\* mapped output.
C18_PadFirstSongThenMix ==
    (cmd.built /\ DelayBased(cmd)) =>
        LET n == Len(cmd.filter)
            pads == StagesOf(cmd, "apad")
        IN  /\ IF silence_duration > 0
               THEN /\ Cardinality(pads) = 1
                    /\ \A j \in pads :
                           /\ cmd.filter[j].ins = <<In(Offset)>>
                           /\ cmd.filter[j].arg = silence_duration
               ELSE pads = {}
            /\ n >= 2
            /\ cmd.filter[n - 1].op = "amix"
            /\ cmd.filter[n].op = "dynaudnorm"
            /\ cmd.filter[n].ins = <<cmd.filter[n - 1].out>>
            /\ cmd.filter[n].out = Name("out")
            /\ cmd.map = Name("out")

C18_Witness ==
    /\ pc = "run"
    /\ Intro
    /\ Len(audio_files) = 3
    /\ silence_duration = Sec(6)
    /\ Cardinality(StagesOf(cmd, "apad")) = 1
    /\ cmd.filter[1].ins = <<In(1)>>

\* C19: in a delay-based graph amix's inputs= is the number of labels fed
\* to it, the number of songs plus one with an intro; each label fed to it
\* is the intro's input [0] or the output of exactly one earlier stage; no
\* output label is left unused.
C19_AmixInputs ==
    (cmd.built /\ DelayBased(cmd)) =>
        LET n == Len(cmd.filter)
            a == n - 1
            fed == cmd.filter[a].ins
            produced == {cmd.filter[j].out : j \in 1..n}
            before == {cmd.filter[j].out : j \in 1..(a - 1)}
            used == UNION {{cmd.filter[j].ins[q] : q \in DOMAIN cmd.filter[j].ins} :
                           j \in 1..n}
        IN  /\ StagesOf(cmd, "amix") = {a}
            /\ cmd.filter[a].arg = Len(fed)
            /\ cmd.filter[a].arg = Len(audio_files) + Offset
            \* no label is produced by two stages
            /\ Cardinality(produced) = n
            /\ \A q \in DOMAIN fed :
                   \/ Intro /\ fed[q] = In(0)
                   \/ fed[q] \in before
            /\ produced \subseteq used \cup {cmd.map}

C19_Witness ==
    /\ pc = "run"
    /\ Intro
    /\ Len(audio_files) = 3
    /\ silence_duration = 0
    /\ \E a \in StagesOf(cmd, "amix") : cmd.filter[a].arg = 4

\* A label that names an input of the command.
IsInput(label) == label.k = "in"

\* The indices of the inputs the stages j.. of a graph read, one for each
\* reference, in the order of the graph.
RECURSIVE InputRefs(_, _)
InputRefs(filter, j) ==
    IF j > Len(filter)
    THEN <<>>
    ELSE LET read == SelectSeq(filter[j].ins, IsInput)
         IN  [q \in DOMAIN read |-> read[q].n] \o InputRefs(filter, j + 1)

\* C20: the graph's stream indices are positions among the -i arguments:
\* with an intro the intro is input [0] and song i (0-based, alphabetical
\* order) input [i+1], without it song i is input [i]; each -i input is
\* read by the graph exactly once.
C20_StreamIndexIsInputPosition ==
    cmd.built =>
        /\ cmd.inputs = (IF Intro THEN <<producer_tag>> ELSE <<>>) \o audio_files
        /\ \A i \in 1..Len(audio_files) : cmd.inputs[i + Offset] = audio_files[i]
        /\ \A i \in 1..(Len(audio_files) - 1) : audio_files[i] < audio_files[i + 1]
        /\ cmd.has_filter =>
            LET refs == InputRefs(cmd.filter, 1)
            IN  /\ Len(refs) = Len(cmd.inputs)
                /\ {refs[q] : q \in DOMAIN refs} = 0..(Len(cmd.inputs) - 1)

C20_Witness ==
    /\ pc = "run"
    /\ Intro
    /\ Len(audio_files) = 3
    /\ silence_duration = 0
    /\ cmd.inputs = <<TagFile, 1, 3, 4>>
    /\ InputUses(cmd, 3) = 1

\* The value of a decimal digit; -1 for anything else.
DigitValue(ch) ==
    CASE ch = "0" -> 0 [] ch = "1" -> 1 [] ch = "2" -> 2 [] ch = "3" -> 3
      [] ch = "4" -> 4 [] ch = "5" -> 5 [] ch = "6" -> 6 [] ch = "7" -> 7
      [] ch = "8" -> 8 [] ch = "9" -> 9 [] OTHER -> -1

\* The number written by the characters i..j of text; -1 when one of them is
\* not a digit or there is none.
RECURSIVE NumberAt(_, _, _)
NumberAt(text, i, j) ==
    IF j < i \/ DigitValue(text[j]) < 0
    THEN -1
    ELSE IF i = j
         THEN DigitValue(text[j])
         ELSE LET high == NumberAt(text, i, j - 1)
              IN  IF high < 0 THEN -1 ELSE 10 * high + DigitValue(text[j])

PollWithinBounds ==
    /\ calls <= 5
    /\ calls >= 1 =>
        /\ Len(sleeps) >= 1
        /\ sleeps[1] = eta_seconds + 20
        /\ \A i \in 2..Len(sleeps) : sleeps[i] = 30
    /\ poll_pc = "poll" => Len(sleeps) = calls + 1
    /\ (poll_pc = "done" /\ calls >= 1) => Len(sleeps) = calls
    /\ (poll_pc = "done" /\ calls = 5 /\ NotYet(result)) => poll_ret.kind = "timeout"
    /\ poll_ret.kind = "timeout" => (poll_pc = "done" /\ calls = 5 /\ NotYet(result))

\* C16: poll_for_result ends, whatever the server answers, after at most 5
\* calls of get_task_result: one wait of eta + 20 s before the first poll,
\* 30 s between two polls and none after the last, and the result with
\* status 'timeout' when none of the 5 polls reports completion or failure.
C16_PollTerminates == []PollWithinBounds /\ <>(poll_pc = "done")

C16_Witness ==
    /\ poll_pc = "done"
    /\ calls = 5
    /\ sleeps = <<65, 30, 30, 30, 30>>
    /\ poll_ret.kind = "timeout"

\* C21: a song whose duration cannot be measured counts 0: get_audio_duration
\* yields 0, the song's timeline entry has duration 0, the next clip starts
\* 0 - fade_duration + silence_duration later, and the mix command is built
\* and run as for any other song; the call may return the mix's path.
C21_UnmeasuredClipCountsZero ==
    /\ \A f \in FileIds \cup {TagFile} :
           probe[f] = ProbeFailed => get_audio_duration(f) = 0
    /\ TimestampsComputed =>
        \A i \in (1 + Offset)..Len(timestamps) :
            probe[timestamps[i].file] = ProbeFailed =>
                /\ timestamps[i].duration = 0
                /\ i < Len(timestamps) =>
                       timestamps[i + 1].start_time =
                           timestamps[i].start_time + 0
                               - fade_duration + silence_duration
    /\ (pc \in {"run", "report"}) => cmd.built
    /\ (Returned /\ ChecksPass /\ ~raised) =>
           /\ runs = 1
           /\ MixSucceeded => ret = output_file

\* The first of two songs is not measured, with fade 5 s and silence 6 s: the
\* second starts at 1 s, and the call returns the mix's path.
C21_Witness ==
    /\ Returned
    /\ ~Intro
    /\ Len(audio_files) = 2
    /\ probe[audio_files[1]] = ProbeFailed
    /\ fade_duration = Sec(5)
    /\ silence_duration = Sec(6)
    /\ timestamps[1].duration = 0
    /\ timestamps[2].start_time = Sec(1)
    /\ runs = 1
    /\ ret = output_file

\* The ways a call that created the temporary list file can end.
EndedBy ==
    IF raised THEN "exception"
    ELSE IF returncode # 0 THEN "ffmpeg failed"
    ELSE IF ~output_exists THEN "no output file"
    ELSE "success"

\* C22 as stated: whenever the temporary list file was created, it has been
\* deleted when the function returns.
C22_TempFileAlwaysDeleted ==
    (Returned /\ concat_created) => concat_file = "deleted"

\* What holds of the temporary list file at every moment.
TempFileCleanedUp ==
    /\ (Returned /\ concat_created) => concat_file \in {"deleted", "left"}
    /\ (Returned /\ ~concat_created) => concat_file = "unset"
    /\ concat_created => ChecksPass
    /\ (pc = "finally" /\ concat_created) => concat_file = "exists"

\* C22: on every path that creates the temporary list file its deletion is
\* attempted before the function returns, and the file is gone unless
\* os.unlink itself failed; on the paths that return before processing
\* starts it is never created; the finally block, whether or not the deletion
\* fails, leaves the function's result as it was.
C22_TempFileDeletionAttempted ==
    /\ []TempFileCleanedUp
    /\ [][pc = "finally" => (pc' = "done" /\ ret' = ret)]_vars

\* A call that made the mix, whose temporary file could not be deleted, and
\* that still returns the mix's path.
C22_Witness ==
    /\ Returned
    /\ concat_created
    /\ concat_file = "left"
    /\ EndedBy = "success"
    /\ ret = output_file

\* The statuses after which polling is to go on.
StillWaiting == Statuses \ {"COMPLETED", "FAILED"}

\* C23: a poll whose conversion status is FAILED ends polling at once: no
\* further poll, nothing downloaded, that poll's result returned; a poll
\* that returns an error, a status PENDING / PROCESSING / IN_PROGRESS or an
\* unknown status takes one of the 5 attempts and polling goes on, so it can
\* be the last poll only as the fifth, with the timeout returned.
C23_FailedStopsOthersGoOn ==
    /\ (calls >= 1 /\ NoError(result) /\ result.status = "FAILED") =>
           /\ poll_pc = "done"
           /\ downloads = <<>>
           /\ poll_ret = result
    /\ (poll_pc = "done" /\ calls >= 1 /\ result.kind = "dict"
          /\ (result.error \/ result.status \in StillWaiting)) =>
           /\ calls = 5
           /\ poll_ret.kind = "timeout"

\* C24: whenever a poll reports the task as completed (status COMPLETED, or
\* success true), a download is attempted for each of the two tracks that
\* has a conversion_path before the result is returned, and the result
\* returned carries the downloaded_files list.
C24_CompletedIsDownloaded ==
    (poll_pc = "done" /\ calls >= 1 /\ NoError(result)
       /\ (result.success \/ result.status = "COMPLETED")) =>
        /\ downloads = InOrder(result.paths)
        /\ poll_ret.kind = "dict"
        /\ poll_ret.has_downloaded_files

\* The call of generate_music is over: it has returned or raised.
GenerateEnded == gen_pc = "done"

\* C25: get_result returns None only if no webhook for the task was stored
\* before the timeout elapsed: a webhook the handler thread stored before
\* the deadline, before get_result was called or during any of its sleeps,
\* the last one included, is returned.
C25_NoneOnlyIfNothingStored ==
    gen_ret.kind = "timeout" =>
        ~(in_results /\ stored_at < start_time + timeout)

\* C26: a call of generate_music that started the webhook server has stopped
\* it when it returns or raises, on every path; no server listens after
\* the call.
C26_ServerStopped ==
    /\ (GenerateEnded /\ server_started) => server = "closed"
    /\ GenerateEnded => server \in {"none", "closed"}
    /\ server = "listening" => gen_pc \in {"post", "wait_test", "wait_sleep", "finally"}

\* The webhook wait ended by an exception, and the server is closed.
C26_Witness ==
    /\ GenerateEnded
    /\ server_started
    /\ posted
    /\ gen_ret.kind = "raise"
    /\ server = "closed"

\* The contents held in a folder.
Contents(f) == {f[n] : n \in Names} \ {NoFile}

\* The names present in a folder.
Present(f) == {n \in Names : f[n] # NoFile}

\* What holds at every moment of a call of rename_songs: at most min(number
\* of songs_folder, number of names) renames are attempted; the folder holds as many
\* songs_folder as before the first call, with the same contents; an empty list of
\* names changes nothing.
RenameKeepsFiles ==
    /\ rn_pc \in {"loop", "done"} =>
           /\ tried <= rn_i
           /\ rn_i <= min_count
           /\ rn_i <= Len(mp3_files) /\ rn_i <= Len(song_names)
    /\ Cardinality(Present(songs_folder)) = Cardinality(Present(files_before))
    /\ Contents(songs_folder) = Contents(files_before)
    /\ \A a, b \in Present(songs_folder) : songs_folder[a] = songs_folder[b] => a = b
    /\ song_names = <<>> => (songs_folder = files_before /\ tried = 0)

\* C27: rename_songs pairs the i-th mp3 file in sorted order with the i-th
\* song name and attempts at most min(number of songs_folder, number of names)
\* renames; it never renames a file onto an existing path, so the folder
\* holds the same number of songs_folder as before and no content is lost; with an
\* empty list of names it renames nothing.
C27_RenameKeepsFiles ==
    /\ []RenameKeepsFiles
    /\ [][songs_folder' # songs_folder =>
              /\ rn_pc = "loop"
              /\ mp3_files = SortedFiles(files_after_first, 1)
              /\ songs_folder[song_names[rn_i + 1]] = NoFile
              /\ songs_folder' = [songs_folder EXCEPT ![song_names[rn_i + 1]] =
                                            songs_folder[mp3_files[rn_i + 1]],
                                        ![mp3_files[rn_i + 1]] = NoFile]]_vars

\* Files 1 and 2, names 3 and 3: 1 was renamed to 3, 2 was skipped.
C27_Witness ==
    /\ rn_pc = "done"
    /\ call_no = 1
    /\ Present(files_before) = {1, 2}
    /\ song_names = <<3, 3>>
    /\ songs_folder = [n \in Names |-> IF n = 2 THEN 2 ELSE IF n = 3 THEN 1 ELSE NoFile]
    /\ renamed = 1

\* C28: rename_songs is idempotent: a second call with the same names
\* renames nothing, and the folder after two calls is the folder after one.
C28_RenameIdempotent ==
    (call_no = 2 /\ rn_pc = "done" /\ ~rename_error) =>
        /\ tried = 0
        /\ songs_folder = files_after_first

\* The values of a list.
Elements(list) == {list[j] : j \in DOMAIN list}

MainEnded == main_pc \in {"done", "raised"}

\* The steps of the pipeline in the order of the script.
PipelineOrder ==
    << IF script = "main" THEN "rename" ELSE "generate",
       "stitch", "convert", "describe", "save" >>

StepsInOrder ==
    /\ Len(steps) <= Len(PipelineOrder)
    /\ steps = SubSeq(PipelineOrder, 1, Len(steps))

StitchFailed == "stitch" \in Elements(steps) /\ result_mp3 = NoneValue

ConvertFailed == "convert" \in Elements(steps) /\ result_mp4 = NoneValue

\* C29: the steps of main run in the order rename, stitch, convert, describe,
\* and once stitch_audio_files or convert_audio_to_video has returned None,
\* main has reported the failure, runs no later step, writes no description
\* file and ends with no exception.
C29_FailedStepStopsCleanly ==
    /\ StepsInOrder
    /\ (MainEnded /\ StitchFailed) =>
           /\ main_raised = ""
           /\ "Audio stitching failed!" \in Elements(main_console)
           /\ steps[Len(steps)] = "stitch"
           /\ description_file = "none"
    /\ (MainEnded /\ ConvertFailed) =>
           /\ main_raised = ""
           /\ "Conversion failed!" \in Elements(main_console)
           /\ steps[Len(steps)] = "convert"
           /\ description_file = "none"

\* The line the description should hold for each entry: the timestamp, one
\* space, and what follows ' - ' in the tracklist.
RECURSIVE EntryTexts(_, _, _)
EntryTexts(ts, i, song_counter) ==
    IF i > Len(ts)
    THEN <<>>
    ELSE LET timestamp_str == format_timestamp(ts[i].start_time)
         IN  IF ts[i].title = ProducerTagTitle
             THEN << timestamp_str \o <<" ">> \o JoinWords(ProducerTagTitle) >>
                  \o EntryTexts(ts, i + 1, song_counter)
             ELSE << timestamp_str \o <<" ">> \o Format02d(song_counter)
                     \o <<". ">> \o JoinWords(ts[i].title) >>
                  \o EntryTexts(ts, i + 1, song_counter + 1)

TracklistLoaded == "describe" \in Elements(steps)

\* C30: what load_and_clean_tracklist returns for a tracklist file written
\* by stitch_audio_files is one line per entry of the timeline, in the same
\* order, each 'TS - X' as 'TS X', with the two header lines and the blank
\* line left out, whatever the playlist title and the song titles.
C30_TracklistRoundTrip ==
    TracklistLoaded => timestamps_desc = EntryTexts(main_timeline, 1, 1)

====
